---- MODULE Spec2Model ----
(***************************************************************************)
(* Real-time voice changer: the capture callback, the processing worker,   *)
(* the output sink, the voice slot manager and the noise canceller,        *)
(* modelled as state machines from src/core.                               *)
(*                                                                         *)
(* Audio arrays are run-length encoded: an array is a sequence of runs     *)
(* [cnt, val], so a 1024-sample chunk of one level is a single run.        *)
(* Samples are float32 values in units of 2^-25.                           *)
(***************************************************************************)
EXTENDS Integers, Sequences, FiniteSets, TLC

(***************************************************************************)
(* config.py                                                               *)
(***************************************************************************)
CHUNK_SIZE == 1024
CROSSFADE_LENGTH == 256
MAX_INPUT_QUEUE == 5
MAX_OUTPUT_QUEUE == 8
MIN_OUTPUT_QUEUE == 3

DefaultConfig ==
    [MAX_INPUT_QUEUE  |-> MAX_INPUT_QUEUE,
     MAX_OUTPUT_QUEUE |-> MAX_OUTPUT_QUEUE,
     MIN_OUTPUT_QUEUE |-> MIN_OUTPUT_QUEUE]

(***************************************************************************)
(* Bounds of the model. Each specification fixes its own limits in `lim`.  *)
(***************************************************************************)
\* output sink alone: largest capacity of a scaled-down configuration,
\* write() calls of the caller, invocations of the device callback
SinkCap == 3
SinkWrites == 10
SinkOutCalls == 4
\* capture source alone: queue capacity, invocations of the device callback
CapCap == 2
CapFrames == 5
\* running engine: capture callbacks, output callbacks, update_params calls
PipeFrames == 3
PipeOutCalls == 2
PipeUpdates == 1
\* voice slot manager: caller threads, switch_to calls issued
SlotThreads == 2
TailCalls == 3
TrackCalls == 11
VbCalls == 2
TrackTicks == 3
TailFade == 4
FadeSwitches == 2
LoopFrames == 3
LoopUpdates == 1
LoopTimeouts == 1
FadeApplies == 3
SlotCalls == 3
\* noise canceller: calls of its public methods
NoiseCalls == 5
\* engine life cycle: start()/stop() calls, capture callbacks, output callbacks
LifeCalls == 3
LifeFrames == 2
LifeOutCalls == 1
\* circular buffer: chunks, samples per chunk, write() calls
BufChunks == 2
BufChunk == 4
BufWrites == 3
\* pitch and formant processor: process() calls
DspCalls == 2
FxCalls == 4
RouteCalls == 3
ParamFrames == 3
ParamUpdates == 1
EqCalls == 3
ClipCalls == 1

NoLimits ==
    [frames |-> 0, outcalls |-> 0, writes |-> 0, updates |-> 0, switches |-> 0, ncalls |-> 0,
     calls |-> 0, bwrites |-> 0, dcalls |-> 0, fxcalls |-> 0,
     rcalls |-> 0, eqcalls |-> 0, xcalls |-> 0, ccalls |-> 0, timeouts |-> 0,
     tcalls |-> 0, ecalls |-> 0, eticks |-> 0,
     vcalls |-> 0]

\* Scaled-down output configurations: every capacity up to SinkCap with the
\* minimum watermark below the maximum, as in config.py (3 < 8).
ScaledConfigs ==
    { c \in [MAX_INPUT_QUEUE : {MAX_INPUT_QUEUE}, MAX_OUTPUT_QUEUE : 2..SinkCap,
             MIN_OUTPUT_QUEUE : 1..(SinkCap - 1)] :
        c.MIN_OUTPUT_QUEUE < c.MAX_OUTPUT_QUEUE }

\* the scaled-down configuration of the running engine
PipeConfig ==
    [MAX_INPUT_QUEUE |-> 1, MAX_OUTPUT_QUEUE |-> 2, MIN_OUTPUT_QUEUE |-> 1]

VARIABLES
    cfg,              \* the config module's queue settings
    lim,              \* the limits of the specification being checked
    \* AudioCapture
    cap_queue,        \* AudioCapture.queue (head = oldest)
    cap_running,      \* AudioCapture.running
    dropped_frames,   \* AudioCapture.dropped_frames
    cb_pc,            \* capture callback: position of the invocation in progress
    cb_data,          \* capture callback: the frame it is about to enqueue
    cb_n,             \* number of capture callback invocations so far
    enqueued,         \* ids of the frames the capture callback enqueued, in order
    \* AudioOutput
    out_queue,        \* AudioOutput.queue (head = oldest)
    out_running,      \* AudioOutput.running
    underflow_count,  \* AudioOutput.underflow_count
    outdata,          \* the device buffer as the output callback left it
    out_calls,        \* number of output callback invocations so far
    last_rendered,    \* id of the newest captured frame rendered (0: none yet)
    w_pc,             \* AudioOutput.write: position of the call in progress
    w_data,           \* AudioOutput.write: the frame being written
    w_drop,           \* AudioOutput.write: drop_count
    w_before,         \* the queue as write() found it
    w_alone,          \* no output callback ran since write() was entered
    w_put,            \* the call's put() stored the frame
    h_n,              \* harness: number of write() calls issued
    \* VoiceChangerEngine
    params,           \* VoiceChangerEngine.params
    fx_enabled,       \* EffectsChain.params: the effects whose enabled flag is set
    pedalboard,       \* effects_chain.PEDALBOARD_AVAILABLE
    upd_n,            \* number of update_params calls so far
    wk_pc,            \* _process_loop: position of the worker
    wk_in,            \* _process_loop: audio_chunk
    wk_proc,          \* _process_loop: processed
    wk_byp,           \* <<b>>: the worker read params["bypass"] = b in this iteration
    wk_vol,           \* <<v>>: the worker tested params["volume"] = v in this iteration
    frame_count,      \* _process_loop: frame_count
    wk_wrote,         \* the output.write calls of this iteration, in order
    wk_timeouts,      \* reads that timed out, as far as they are counted
    wk_trace,         \* the stages this iteration went through, in order
    \* VoiceSlotManager
    current_slot,     \* VoiceSlotManager.current_slot
    switching,        \* VoiceSlotManager._switching
    slot_lock,        \* VoiceSlotManager._lock: 0 when free, else the thread holding it
    switch_queue,     \* VoiceSlotManager._switch_queue (maxsize 1)
    fade,             \* the cross-fade _do_crossfade prepared: <<>> or <<[from, to]>>
    sl_pc,            \* switch_to: position of each caller thread
    sl_arg,           \* switch_to: slot_index of each thread's innermost call
    sl_calls,         \* number of switch_to calls issued by callers
    sl_entry,         \* the last switch_to call made: its thread, its index, and
                      \* whether it returned False for the index at once
    fade_progress,    \* VoiceSlotManager._fade_progress
    xf_pc,            \* apply_crossfade: position of the audio thread
    xf_chunk,         \* apply_crossfade: chunk_len
    xf_len,           \* apply_crossfade: apply_len
    xf_read,          \* apply_crossfade: the progress `+=` loaded
    xf_last,          \* the last apply_crossfade call that returned
    xf_calls,         \* number of apply_crossfade calls so far
    fade_len,         \* CircularBuffer.fade_len
    \* VoiceBeautifier.process and the controls of the advanced tab
    vb_settings,      \* VoiceBeautifier.settings: strength in hundredths, gains in dB
    vb_bypass,        \* VoiceBeautifier._bypass
    vb_master,        \* the last of enable() and disable() to be called: "on" or "off"
    vb_pc,            \* process: "idle", or "filter" once the switches let the call through
    vb_over,          \* process: the settings argument of the call under way, <<>> for None
    vb_last,          \* the last process() call to return: what it was given and what it did
    vb_calls,         \* number of process() calls so far
    \* ErrorTracker called on its own
    error_counts,     \* ErrorTracker.error_counts: source -> count
    last_error_time,  \* ErrorTracker.last_error_time: source -> time of its last error
    et_lock,          \* ErrorTracker._lock: 0 when free, else the thread holding it
    et_pc,            \* log_error: position of each caller thread
    et_src,           \* log_error: the source each caller passed
    et_at,            \* log_error: each caller's local `now`
    et_tmp,           \* log_error: the count each caller loaded for the increment
    et_now,           \* time.time(), in seconds
    et_last,          \* the last log_error call to finish: its source, its count, logged or not
    et_calls,         \* number of log_error calls so far
    et_ticks,         \* number of times the clock was advanced
    et_nth,           \* for each source: the errors it raised since its last pause of over a minute
    et_when,          \* for each source: the time of its last error, -1 before the first
    et_mine,          \* for each caller: which error of its source it reports
    cf_last,          \* the last CircularBuffer.apply_crossfade call
    cf_calls,         \* number of CircularBuffer.apply_crossfade calls so far
    \* NoiseCanceller
    nc_enabled,       \* NoiseCanceller._enabled
    nc_fallback,      \* NoiseCanceller._fallback_mode
    nc_intensity,     \* NoiseCanceller.intensity
    nc_processed,     \* NoiseCanceller._process_count
    nc_errors,        \* NoiseCanceller._error_count
    nc_last,          \* the last call: method, input, output, backend use
    nc_streak,        \* backend failures in a row since construction (see NextStreak)
    nc_calls,         \* number of calls so far
    \* VoiceChangerEngine.start / stop and the two workers
    eng_running,      \* VoiceChangerEngine.running
    stop_event,       \* VoiceChangerEngine.stop_event is set
    cap_stream,       \* AudioCapture.stream: "none", "open" (created, not started), "active"
    out_stream,       \* AudioOutput.stream, likewise
    ctl_pc,           \* the control thread: its position inside start() or stop()
    ctl_wait,         \* the control thread: ticks left of the join it is in
    ctl_err,          \* <<>>, or <<s>>: start() is in its except clause for stream s
    ctl_last,         \* how the control thread's last call ended
    ctl_calls,        \* number of start() and stop() calls so far
    pthreads,         \* every processing thread created; process_thread is the last
    mthreads,         \* every monitor thread created; monitor_thread is the last
    stats,            \* VoiceChangerEngine.stats
    run_base,         \* the callback and thread counts when the last start() was entered
    \* CircularBuffer
    buf_data,         \* CircularBuffer.buffer
    write_ptr,        \* CircularBuffer.write_ptr
    read_ptr,         \* CircularBuffer.read_ptr
    prev_tail,        \* CircularBuffer.prev_tail
    buf_handed,       \* number of samples handed to write() so far
    buf_total,        \* number of samples write() stored since the last clear()
    buf_shadow,       \* a ring of the same capacity written one sample at a time
    buf_calls,        \* number of write() calls so far
    buf_last,         \* the last write(): the length handed over, the index it found
    \* PitchProcessor / FormantProcessor called on their own
    dsp_last,         \* the last process() call: its arguments, its path, the length returned
    dsp_calls,        \* number of process() calls so far
    \* EffectsChain called on its own
    fx_on,            \* EffectsChain.enabled
    fx_none,          \* the effects whose numeric setting holds None
    fx_board,         \* EffectsChain.board: <<>> for None, else <<the effects it was built from>>
    fx_res,           \* the last process() call: what it found and what it returned
    fx_calls,         \* number of calls of the chain's methods so far
    \* VoiceChangerEngine.update_params called on its own
    fx_params,        \* EffectsChain.params: effect -> field -> value
    fx_chain,         \* the plugins of EffectsChain.board, in the board's order
    rt_last,          \* the last update_params call: its name, its value, how it ended
    rt_calls,         \* number of update_params calls so far
    rt_at,            \* engine parameter -> the frame the worker was handling when the
                      \* parameter was last written (0: none, or the worker was idle)
    \* VoiceBeautifier.eq called on its own
    eq_warmth,        \* VoiceBeautifier._warmth_filter: <<>> for None, else <<its design>>
    eq_presence,      \* VoiceBeautifier._presence_filter, likewise
    eq_key,           \* VoiceBeautifier._filter_cache_params: <<>> for None, else <<key>>
    eq_last,          \* the last eq() call: its triple, what it did, the filters it applied
    eq_calls,         \* number of eq() calls so far
    \* the gain and the soft clip of AudioCapture._callback on their own
    clip_in,          \* indata: the block the driver delivered
    clip_out,         \* data: the block as it is enqueued
    clip_calls        \* number of blocks so far

capVars == <<cap_queue, cap_running, dropped_frames, cb_pc, cb_data, cb_n, enqueued>>
outVars == <<out_queue, out_running, underflow_count, outdata, out_calls, last_rendered>>
writeVars == <<w_pc, w_data, w_drop, w_before, w_alone, w_put>>
paramVars == <<params, fx_enabled, pedalboard, upd_n>>
loopVars == <<frame_count, wk_wrote, wk_timeouts>>
workerVars == <<wk_pc, wk_in, wk_proc, wk_byp, wk_vol, loopVars, wk_trace>>
fadeVars == <<fade_progress, xf_pc, xf_chunk, xf_len, xf_read, xf_last, xf_calls>>
slotVars == <<current_slot, switching, slot_lock, switch_queue, fade, sl_pc, sl_arg, sl_calls,
              sl_entry, fadeVars>>
noiseVars == <<nc_enabled, nc_fallback, nc_intensity, nc_processed, nc_errors, nc_last,
               nc_streak, nc_calls>>
lifeVars == <<eng_running, stop_event, cap_stream, out_stream, ctl_pc, ctl_wait, ctl_err,
              ctl_last, ctl_calls, pthreads, mthreads, stats, run_base>>
\* the components modelled on their own
bufVars == <<buf_data, write_ptr, read_ptr, prev_tail, buf_handed, buf_total, buf_shadow,
             buf_calls, buf_last>>
dspVars == <<dsp_last, dsp_calls>>
fxVars == <<fx_on, fx_none, fx_board, fx_res, fx_calls>>
routeVars == <<fx_params, fx_chain, rt_last, rt_calls, rt_at>>
eqVars == <<eq_warmth, eq_presence, eq_key, eq_last, eq_calls>>
clipVars == <<clip_in, clip_out, clip_calls>>
tailVars == <<fade_len, cf_last, cf_calls>>
trackVars == <<error_counts, last_error_time, et_lock, et_pc, et_src, et_at, et_tmp, et_now,
               et_last, et_calls, et_ticks, et_nth, et_when, et_mine>>
enhVars == <<vb_settings, vb_bypass, vb_master, vb_pc, vb_over, vb_last, vb_calls>>
lastVars == <<tailVars, trackVars, enhVars>>
moreVars == <<routeVars, eqVars, clipVars, lastVars>>
extVars == <<lifeVars, bufVars, dspVars, fxVars, moreVars>>
vars == <<cfg, lim, capVars, outVars, writeVars, h_n, paramVars, workerVars, slotVars, noiseVars,
          extVars>>

\* the audio path: everything but the slot manager and the noise canceller
audioVars == <<cfg, capVars, outVars, writeVars, h_n, paramVars, workerVars>>

\* everything but the output sink
sinkFrame == <<cfg, lim, capVars, h_n, paramVars, workerVars, slotVars, noiseVars, extVars>>
\* everything but the capture source
captureFrame == <<cfg, lim, outVars, writeVars, h_n, paramVars, workerVars, slotVars, noiseVars, extVars>>

(***************************************************************************)
(* numpy arrays, run-length encoded                                        *)
(***************************************************************************)
RECURSIVE Length(_)
Length(a) == IF a = <<>> THEN 0 ELSE Head(a).cnt + Length(Tail(a))

\* np.zeros(n) / a constant array
Const(n, v) == IF n = 0 THEN <<>> ELSE <<[cnt |-> n, val |-> v]>>

\* normal form: adjacent runs of one value are one run
RECURSIVE Norm(_)
Norm(a) ==
    IF Len(a) < 2 THEN a
    ELSE IF a[1].val = a[2].val
         THEN Norm(<<[cnt |-> a[1].cnt + a[2].cnt, val |-> a[1].val]>> \o SubSeq(a, 3, Len(a)))
         ELSE <<a[1]>> \o Norm(Tail(a))

\* data[:n]
RECURSIVE Take(_, _)
Take(a, n) ==
    IF n = 0 \/ a = <<>> THEN <<>>
    ELSE IF Head(a).cnt >= n THEN <<[cnt |-> n, val |-> Head(a).val]>>
         ELSE <<Head(a)>> \o Take(Tail(a), n - Head(a).cnt)

\* np.pad(data, (0, k), mode='constant')
PadZeros(a, k) == Norm(a \o Const(k, 0))

\* an elementwise operation
MapVal(a, F(_)) == Norm([i \in 1..Len(a) |-> [cnt |-> a[i].cnt, val |-> F(a[i].val)]])

\* no array counts as constant
AllEqual_Never(a, v) == FALSE

\* np.all(a == v) over the whole array
AllEqual(a, v) == \A i \in 1..Len(a) : a[i].val = v

(***************************************************************************)
(* Frames travelling through the queues: the array, the stages applied to  *)
(* it so far, and the number of the capture callback that produced it      *)
(* (0 for a frame that was not captured).                                  *)
(***************************************************************************)
MkFrame(id, data) == [id |-> id, data |-> data, ops |-> <<>>]

\* queue.Queue: put at the tail, get from the head
Enqueue_Front(q, x) == <<x>> \o q

Enqueue(q, x) == Append(q, x)

\* np.zeros(config.CHUNK_SIZE, dtype=np.float32)
SilentFrame == MkFrame(0, Const(CHUNK_SIZE, 0))

\* 1.0 in sample units
One == 2^25

\* what the driver's buffer holds when the callback is entered: a value no
\* frame holds
StaleSample == One + 1
StaleBuffer(frames) == Const(frames, StaleSample)

(***************************************************************************)
(* AudioCapture._callback                                                  *)
(*                                                                         *)
(* Raw device samples are in tenths (val 5 is 0.5); after the gain they    *)
(* are whole numbers, and after the soft clip float32 values in units of   *)
(* 2^-25.                                                                  *)
(***************************************************************************)
\* raw sample levels the device delivers: 0.5
RawLevels == {5}

\* indata.copy().flatten() * 10.0, in units of 1/10
Gain(x) == x * 10

\* the gained sample left as it is
TanhF32_Skipped(x) == x * (One \div 10)

\* np.tanh on float32, for the gained levels |x| in {0, 5, 10}
TanhF32(x) ==
    LET m == IF x < 0 THEN -x ELSE x
        t == CASE m = 0   -> 0
               [] m = 50  -> 33551386
               [] m = 100 -> One
    IN  IF x < 0 THEN -t ELSE t

\* the frame a callback builds from the driver's block
Captured(id, raw) ==
    MkFrame(id, MapVal(MapVal(Const(CHUNK_SIZE, raw), Gain), TanhF32))

\* the drop of the oldest frame
EvictOldest(q) == Tail(q)

\* entry, the first put(data, block=False) included
CaptureCallback ==
    /\ cb_pc = "idle"
    /\ cb_n < lim.frames
    /\ cb_n' = cb_n + 1
    /\ IF ~cap_running
       THEN \* raise sd.CallbackAbort
            UNCHANGED <<cap_queue, cb_pc, cb_data, enqueued>>
       ELSE \E raw \in RawLevels :
              LET data == Captured(cb_n + 1, raw)
              IN  IF Len(cap_queue) < cfg.MAX_INPUT_QUEUE
                  THEN /\ cap_queue' = Enqueue(cap_queue, data)
                       /\ enqueued' = Append(enqueued, data.id)
                       /\ UNCHANGED <<cb_pc, cb_data>>
                  ELSE \* queue.Full
                       /\ cb_pc' = "evict"
                       /\ cb_data' = data
                       /\ UNCHANGED <<cap_queue, enqueued>>
    /\ UNCHANGED <<cap_running, dropped_frames>>
    /\ UNCHANGED captureFrame

\* a blocking get(): it returns once a frame is there
GetNowaitReturns_Blocking(q) == q # <<>>

\* get_nowait() returns at once, with the oldest frame or with queue.Empty
GetNowaitReturns(q) == TRUE

\* _ = self.queue.get_nowait(); on queue.Empty the callback ends (pass)
CaptureEvict ==
    /\ cb_pc = "evict"
    /\ GetNowaitReturns(cap_queue)
    /\ IF cap_queue # <<>>
       THEN cap_queue' = EvictOldest(cap_queue) /\ cb_pc' = "reput" /\ UNCHANGED cb_data
       ELSE cb_pc' = "idle" /\ cb_data' = SilentFrame /\ UNCHANGED cap_queue
    /\ UNCHANGED <<cap_running, dropped_frames, cb_n, enqueued>>
    /\ UNCHANGED captureFrame

\* self.queue.put(data, block=False); self.dropped_frames += 1
CaptureReput ==
    /\ cb_pc = "reput"
    /\ cb_pc' = "idle"
    /\ cb_data' = SilentFrame
    /\ IF Len(cap_queue) < cfg.MAX_INPUT_QUEUE
       THEN /\ cap_queue' = Enqueue(cap_queue, cb_data)
            /\ enqueued' = Append(enqueued, cb_data.id)
            /\ dropped_frames' = dropped_frames + 1
       ELSE \* queue.Full leaves the callback
            UNCHANGED <<cap_queue, enqueued, dropped_frames>>
    /\ UNCHANGED <<cap_running, cb_n>>
    /\ UNCHANGED captureFrame

\* AudioCapture.read(timeout): the blocking get, one frame
CaptureRead(q) == [frame |-> Head(q), rest |-> Tail(q)]

\* a consumer thread calling read(), its frame discarded
ReaderRead ==
    /\ cap_queue # <<>>
    /\ cap_queue' = CaptureRead(cap_queue).rest
    /\ UNCHANGED <<cap_running, dropped_frames, cb_pc, cb_data, cb_n, enqueued>>
    /\ UNCHANGED captureFrame

(***************************************************************************)
(* AudioOutput._callback                                                   *)
(***************************************************************************)
\* the fill left out: the buffer keeps what it held
Fill_Stale(buf, v) == buf

\* outdata.fill(0)
Fill(buf, v) == Const(Length(buf), v)

\* pad or truncate to `frames` samples, then outdata[:] = data
Resize(data, frames) ==
    IF Length(data) < frames THEN PadZeros(data, frames - Length(data))
    ELSE IF Length(data) > frames THEN Take(data, frames)
    ELSE data

\* underflow_count += 1
CountUnderflow(n) == n + 1

OutputCallback ==
    /\ out_calls < lim.outcalls
    /\ out_calls' = out_calls + 1
    /\ LET frames == CHUNK_SIZE
           buf == StaleBuffer(frames)
       IN  IF ~out_running
           THEN \* raise sd.CallbackAbort
                UNCHANGED <<out_queue, outdata, last_rendered, underflow_count>>
           ELSE IF out_queue # <<>>
           THEN /\ out_queue' = Tail(out_queue)
                /\ outdata' = [data |-> Resize(Head(out_queue).data, frames),
                               ops |-> Head(out_queue).ops]
                /\ last_rendered' = IF Head(out_queue).id # 0
                                    THEN Head(out_queue).id
                                    ELSE last_rendered
                /\ UNCHANGED underflow_count
           ELSE /\ outdata' = [data |-> Fill(buf, 0), ops |-> <<>>]
                /\ underflow_count' = CountUnderflow(underflow_count)
                /\ UNCHANGED <<out_queue, last_rendered>>
    /\ w_alone' = (w_alone /\ w_pc = "idle")
    /\ UNCHANGED <<sinkFrame, out_running, w_pc, w_data, w_drop, w_before, w_put>>

\* the catch-up left out: no queue is full enough to drain
NeedsCatchUp_Never(qsize) == FALSE

(***************************************************************************)
(* AudioOutput.write, one step per queue operation                         *)
(***************************************************************************)
\* qsize >= config.MAX_OUTPUT_QUEUE
NeedsCatchUp(qsize) == qsize >= cfg.MAX_OUTPUT_QUEUE

\* the loop test off by one: drains one frame too many
AboveWatermark_OffByOne(qsize) == qsize >= cfg.MIN_OUTPUT_QUEUE

\* while self.queue.qsize() > config.MIN_OUTPUT_QUEUE
AboveWatermark(qsize) == qsize > cfg.MIN_OUTPUT_QUEUE

\* entry: the caller hands the frame over
WriteEnter(frame) ==
    /\ w_pc' = "check"
    /\ w_data' = frame
    /\ w_drop' = 0
    /\ w_before' = out_queue
    /\ w_alone' = TRUE
    /\ w_put' = FALSE

WriteCheck ==
    /\ w_pc = "check"
    /\ w_pc' = IF NeedsCatchUp(Len(out_queue)) THEN "test" ELSE "put"
    /\ UNCHANGED <<sinkFrame, outVars, w_data, w_drop, w_before, w_alone, w_put>>

WriteDrainTest ==
    /\ w_pc = "test"
    /\ w_pc' = IF AboveWatermark(Len(out_queue)) THEN "get" ELSE "put"
    /\ UNCHANGED <<sinkFrame, outVars, w_data, w_drop, w_before, w_alone, w_put>>

\* get_nowait(); queue.Empty breaks the loop
WriteDrainGet ==
    /\ w_pc = "get"
    /\ IF out_queue # <<>>
       THEN /\ out_queue' = Tail(out_queue)
            /\ w_drop' = w_drop + 1
            /\ w_pc' = "test"
       ELSE /\ w_pc' = "put"
            /\ UNCHANGED <<out_queue, w_drop>>
    /\ UNCHANGED <<sinkFrame, out_running, underflow_count, outdata, out_calls, last_rendered,
                   w_data, w_before, w_alone, w_put>>

\* put(data, block=True, timeout=0.2); on a queue that stays full the wait
\* ends in queue.Full, which write() swallows: the frame is dropped
WritePut ==
    /\ w_pc = "put"
    /\ IF Len(out_queue) < cfg.MAX_OUTPUT_QUEUE
       THEN out_queue' = Enqueue(out_queue, w_data) /\ w_put' = TRUE
       ELSE UNCHANGED <<out_queue, w_put>>
    /\ w_pc' = "ret"
    /\ UNCHANGED <<sinkFrame, out_running, underflow_count, outdata, out_calls, last_rendered,
                   w_data, w_drop, w_before, w_alone>>

(***************************************************************************)
(* Output sink driven as in tests/test_device_logic.py: a caller issues    *)
(* write() calls with frames 0, 1, 2, ... while the device callback runs.  *)
(***************************************************************************)
\* frame n (numbered n + 1): one level, n + 1, and a length that is in turn the device block
\* size, half of it and twice it
HarnessLen(n) ==
    IF n % 3 = 0 THEN CHUNK_SIZE
    ELSE IF n % 3 = 1 THEN CHUNK_SIZE \div 2
    ELSE 2 * CHUNK_SIZE

HarnessFrame(n) == MkFrame(n + 1, Const(HarnessLen(n), n + 1))

HarnessWrite ==
    /\ w_pc \in {"idle", "ret"}
    /\ h_n < lim.writes
    /\ h_n' = h_n + 1
    /\ WriteEnter(HarnessFrame(h_n))
    /\ UNCHANGED <<cfg, lim, capVars, outVars, paramVars, workerVars, slotVars, noiseVars, extVars>>

(***************************************************************************)
(* Parameter values. update_params stores any value it is given (presets   *)
(* are read from JSON files), so a value is a number or none.              *)
(* pitch_shift is in semitones, formant_ratio and volume in hundredths.    *)
(***************************************************************************)
Num(x) == [kind |-> "num", v |-> x]
None == [kind |-> "none", v |-> 0]

PITCH_MIN == -12
PITCH_MAX == 12
FORMANT_MIN == 50
FORMANT_MAX == 200
\* the floor on the resampled length below which a processor bypasses
MinResampleLen == 10

Clamp(x, lo, hi) == IF x < lo THEN lo ELSE IF x > hi THEN hi ELSE x

\* a stage's result: a value, or an exception that leaves the stage
Ok(f) == [raised |-> FALSE, val |-> f]
Raise == [raised |-> TRUE, val |-> SilentFrame]

\* the output of a resampling or effects stage applied to a frame
Tag(f, stage, arg) == [f EXCEPT !.ops = Append(@, [stage |-> stage, arg |-> arg])]

(***************************************************************************)
(* PitchProcessor.process                                                  *)
(***************************************************************************)
\* 2.0 ** (semitones / 12.0), in millionths, for the shifts of the model
PitchRatioMicro(st) ==
    CASE st = -12 -> 500000
      [] st = 0   -> 1000000
      [] st = 5   -> 1334840
      [] st = 12  -> 2000000

\* int(n_samples / ratio)
PitchNewLength(n, st) == (n * 1000) \div (PitchRatioMicro(st) \div 1000)

\* the results process() can have; for the shifts of the model
\* resample_poly succeeds
PitchProcess(f, semitones) ==
    IF Length(f.data) = 0 THEN {Ok(f)}
    ELSE IF semitones.kind # "num" THEN {Raise}      \* abs(semitones)
    ELSE IF semitones.v = 0 THEN {Ok(f)}
    ELSE LET st == Clamp(semitones.v, PITCH_MIN, PITCH_MAX)
         IN  IF PitchNewLength(Length(f.data), st) < MinResampleLen
             THEN {Ok(f)}
             ELSE {Ok(Tag(f, "pitch", st))}

(***************************************************************************)
(* FormantProcessor.process                                                *)
(***************************************************************************)
FormantProcess(f, ratio) ==
    IF ratio.kind # "num" THEN {Raise}               \* abs(ratio - 1.0)
    ELSE IF ratio.v > 95 /\ ratio.v < 105 THEN {Ok(f)}
    ELSE LET r == Clamp(ratio.v, FORMANT_MIN, FORMANT_MAX)
         IN  IF Length(f.data) = 0 THEN {Ok(f)}
             ELSE IF (Length(f.data) * 100) \div r < MinResampleLen THEN {Ok(f)}
             ELSE {Ok(Tag(f, "formant", r))}

(***************************************************************************)
(* The two processors called on their own: the path a call takes and the  *)
(* length of the array it returns. A shift is in semitones, a ratio in     *)
(* hundredths.                                                             *)
(***************************************************************************)
RECURSIVE GCD(_, _)
GCD(a, b) == IF b = 0 THEN a ELSE GCD(b, a % b)

\* len(signal.resample_poly(x, up, down)) for len(x) = n: up and down are
\* divided by their gcd, the output has ceil(n * up / down) samples
ResamplePolyLen(n, up, down) ==
    LET g == GCD(up, down)
        u == up \div g
        d == down \div g
    IN  (n * u + d - 1) \div d

\* the array left at its resampled length
Restored_Stretched(m, n_samples) == m

\* the resampling back to n_samples, then the cut or the padding to
\* n_samples
Restored(m, n_samples) ==
    LET back == IF m # n_samples THEN ResamplePolyLen(m, n_samples, m) ELSE m
    IN  IF back > n_samples THEN n_samples
        ELSE IF back < n_samples THEN back + (n_samples - back)
        ELSE back

\* a call's outcome
Outcome2(path, len) == [path |-> path, len |-> len]

\* PitchProcessor.process on an array of n samples: resample_poly returns,
\* or raises into the except clause
PitchOutcomes(n, semitones) ==
    IF n = 0 THEN {Outcome2("empty", n)}
    ELSE IF semitones = 0 THEN {Outcome2("bypass", n)}
    ELSE LET st == Clamp(semitones, PITCH_MIN, PITCH_MAX)
             new_length == PitchNewLength(n, st)
         IN  IF new_length < MinResampleLen THEN {Outcome2("short", n)}
             ELSE {Outcome2("resampled",
                            Restored(ResamplePolyLen(n, new_length, n), n)),
                   Outcome2("failed", n)}

\* FormantProcessor.process on an array of n samples
FormantOutcomes(n, ratio) ==
    IF ratio > 95 /\ ratio < 105 THEN {Outcome2("bypass", n)}
    ELSE LET r == Clamp(ratio, FORMANT_MIN, FORMANT_MAX)
             new_len == (n * 100) \div r
         IN  IF n = 0 THEN {Outcome2("empty", n)}
             ELSE IF new_len < MinResampleLen THEN {Outcome2("short", n)}
             ELSE {Outcome2("resampled",
                            Restored(ResamplePolyLen(n, new_len, n), n)),
                   Outcome2("failed", n)}

\* the arrays the processors are called on: empty, too short to resample,
\* at the floor, the 100 samples of the repository's test, a chunk
DspLengths == {0, 5, 9, 10, 19, 20, 100, CHUNK_SIZE}

\* the shifts: within the policy bounds, at them and beyond them
DspShifts == {-100, PITCH_MIN, 0, 5, PITCH_MAX, 100}

\* the ratios: within the policy bounds, at them and beyond them
DspRatios == {25, FORMANT_MIN, 97, 100, 150, FORMANT_MAX, 400}

dspFrame ==
    <<cfg, lim, capVars, outVars, writeVars, h_n, paramVars, workerVars, slotVars, noiseVars,
      lifeVars, bufVars, fxVars, moreVars>>

\* PitchProcessor().process(audio, semitones)
PitchCall ==
    /\ dsp_calls < lim.dcalls
    /\ dsp_calls' = dsp_calls + 1
    /\ \E n \in DspLengths, st \in DspShifts :
         \E o \in PitchOutcomes(n, st) :
            dsp_last' = [stage |-> "pitch", n |-> n, factor |-> st,
                         path |-> o.path, len |-> o.len]
    /\ UNCHANGED dspFrame

\* FormantProcessor().process(audio, ratio)
FormantCall ==
    /\ dsp_calls < lim.dcalls
    /\ dsp_calls' = dsp_calls + 1
    /\ \E n \in DspLengths, r \in DspRatios :
         \E o \in FormantOutcomes(n, r) :
            dsp_last' = [stage |-> "formant", n |-> n, factor |-> r,
                         path |-> o.path, len |-> o.len]
    /\ UNCHANGED dspFrame

(***************************************************************************)
(* EffectsChain.process                                                    *)
(***************************************************************************)
EffectsProcess(f) ==
    IF fx_enabled = {} THEN {Ok(f)}
    ELSE IF pedalboard
         THEN {Ok(Tag(f, "board", fx_enabled))}
         ELSE {Ok(Tag(f, "mock", fx_enabled))}

(***************************************************************************)
(* VoiceChangerEngine.update_params                                        *)
(***************************************************************************)
\* the values callers set: a shift and a ratio that make the stages run, the
\* bypass switch either way, a volume below 1.0, and a value that is no number
ParamValues ==
    [pitch_shift   |-> {Num(5), None},
     formant_ratio |-> {Num(150)},
     bypass        |-> {TRUE, FALSE},
     volume        |-> {Num(50), None}]

EffectNames == {"reverb"}

UpdateParam ==
    /\ upd_n < lim.updates
    /\ upd_n' = upd_n + 1
    /\ \E name \in DOMAIN ParamValues : \E value \in ParamValues[name] :
          params' = [params EXCEPT ![name] = value]
    /\ UNCHANGED <<fx_enabled, pedalboard>>
    /\ UNCHANGED <<cfg, lim, capVars, outVars, writeVars, h_n, workerVars, slotVars, noiseVars, extVars>>

\* "effect:<name>:enabled"
UpdateEffect ==
    /\ upd_n < lim.updates
    /\ upd_n' = upd_n + 1
    /\ \E e \in EffectNames : \E value \in BOOLEAN :
          fx_enabled' = IF value THEN fx_enabled \cup {e} ELSE fx_enabled \ {e}
    /\ UNCHANGED <<params, pedalboard>>
    /\ UNCHANGED <<cfg, lim, capVars, outVars, writeVars, h_n, workerVars, slotVars, noiseVars, extVars>>

(***************************************************************************)
(* VoiceChangerEngine._process_loop, one step per access to shared state   *)
(***************************************************************************)
\* everything the worker does not touch outside write()
workerFrame == <<cfg, lim, outVars, h_n, paramVars, slotVars, noiseVars, extVars>>

\* where the bypass check sends the frame
BypassIgnored(bypass) == "pitch"

AfterBypassCheck(bypass) == IF bypass THEN "volume" ELSE "pitch"

\* x * v / 100, each product within 32 bits
Hundredths(x, v) == (x \div 100) * v + ((x % 100) * v) \div 100

\* the frame scaled by the volume the engine was built with
Scale_Initial(f, volume) == IF f.ops = <<>> THEN Ok(f) ELSE Ok(Tag(f, "volume", 100))

\* processed.flatten() * volume
Scale(f, volume) ==
    IF volume.kind # "num" THEN Raise
    ELSE IF f.ops = <<>>
         THEN Ok([f EXCEPT !.data = MapVal(@, LAMBDA x : Hundredths(x, volume.v))])
         ELSE Ok(Tag(f, "volume", volume.v))

\* the frame the handler of a failed iteration writes
HandlerFrame_Short == MkFrame(0, Const(CHUNK_SIZE - 1, 0))

HandlerFrame == SilentFrame

\* audio_chunk = self.capture.read(timeout=0.5)
WorkerRead ==
    /\ wk_pc = "read"
    /\ cap_queue # <<>>
    /\ wk_in' = CaptureRead(cap_queue).frame
    /\ cap_queue' = CaptureRead(cap_queue).rest
    /\ wk_proc' = wk_in'
    /\ wk_byp' = <<>>
    /\ wk_vol' = <<>>
    /\ wk_trace' = <<>>
    /\ wk_pc' = "bypass"
    /\ UNCHANGED <<cap_running, dropped_frames, cb_pc, cb_data, cb_n, enqueued>>
    /\ UNCHANGED <<workerFrame, writeVars, loopVars>>

\* except queue.Empty: continue
WorkerTimeout ==
    /\ wk_pc = "read"
    /\ cap_queue = <<>>
    /\ wk_timeouts' = IF wk_timeouts < lim.timeouts THEN wk_timeouts + 1 ELSE wk_timeouts
    /\ UNCHANGED <<wk_pc, wk_in, wk_proc, wk_byp, wk_vol, frame_count, wk_wrote, wk_trace>>
    /\ UNCHANGED <<workerFrame, capVars, writeVars>>

\* if self.params["bypass"]: processed = audio_chunk.copy()
WorkerBypass ==
    /\ wk_pc = "bypass"
    /\ wk_byp' = <<params.bypass>>
    /\ wk_proc' = wk_in
    /\ wk_pc' = AfterBypassCheck(params.bypass)
    /\ UNCHANGED <<wk_in, wk_vol, wk_trace>>
    /\ UNCHANGED <<workerFrame, capVars, writeVars, loopVars>>

\* what the iteration notes of a stage: the value its test saw, whether the
\* stage was called, the array that went in and the one that goes on
Visit(stage, saw, ran, in, out) ==
    [stage |-> stage, saw |-> saw, ran |-> ran, in |-> in, out |-> out]

\* a stage behind a test of its parameter; `next` is where the worker goes on
StageTest(at, saw, skip, run, next) ==
    /\ wk_pc = at
    /\ wk_pc' = IF skip THEN next ELSE run
    /\ wk_trace' = Append(wk_trace, Visit(at, saw, ~skip, wk_proc, wk_proc))
    /\ UNCHANGED <<wk_in, wk_proc, wk_byp, wk_vol>>
    /\ UNCHANGED <<workerFrame, capVars, writeVars, loopVars>>

\* the call of a stage: `processed` is what the call returns; a stage with
\* no test before it is noted here
StageRun(at, stage, results, next) ==
    /\ wk_pc = at
    /\ \E r \in results :
          IF r.raised
          THEN wk_pc' = "except" /\ UNCHANGED <<wk_proc, wk_trace>>
          ELSE /\ wk_pc' = next
               /\ wk_proc' = r.val
               /\ wk_trace' = IF wk_trace # <<>> /\ wk_trace[Len(wk_trace)].stage = stage
                               THEN [wk_trace EXCEPT ![Len(wk_trace)].out = r.val]
                               ELSE Append(wk_trace, Visit(stage, None, TRUE, wk_proc, r.val))
    /\ UNCHANGED <<wk_in, wk_byp, wk_vol>>
    /\ UNCHANGED <<workerFrame, capVars, writeVars, loopVars>>

\* every shift up to five semitones counts as none
PitchSkipped_Small(v) == v.kind = "num" /\ v.v <= 5

\* the negation of `self.params["pitch_shift"] != 0`
PitchSkipped(v) == v = Num(0)

\* if self.params["pitch_shift"] != 0:
WorkerPitchTest ==
    StageTest("pitch", params.pitch_shift, PitchSkipped(params.pitch_shift), "pitch_run", "formant")

WorkerPitch == StageRun("pitch_run", "pitch", PitchProcess(wk_proc, params.pitch_shift), "formant")

\* if self.params["formant_ratio"] != 1.0:
WorkerFormantTest ==
    StageTest("formant", params.formant_ratio, params.formant_ratio = Num(100), "formant_run",
              "effects")

WorkerFormant ==
    StageRun("formant_run", "formant", FormantProcess(wk_proc, params.formant_ratio), "effects")

\* processed = self.effects.process(processed); the result is one-dimensional,
\* so the fold-down to mono and the flatten leave it as it is
WorkerEffects == StageRun("effects", "effects", EffectsProcess(wk_proc), "volume")

\* if self.params["volume"] != 1.0:
WorkerVolumeTest ==
    /\ wk_pc = "volume"
    /\ wk_vol' = <<params.volume>>
    /\ wk_pc' = IF params.volume = Num(100) THEN "write" ELSE "volume_run"
    /\ wk_trace' = Append(wk_trace, Visit("volume", params.volume, params.volume # Num(100),
                                          wk_proc, wk_proc))
    /\ UNCHANGED <<wk_in, wk_proc, wk_byp>>
    /\ UNCHANGED <<workerFrame, capVars, writeVars, loopVars>>

WorkerVolume == StageRun("volume_run", "volume", {Scale(wk_proc, params.volume)}, "write")

\* self.output.write(processed.astype(np.float32)): the call is entered
WorkerWrite ==
    /\ wk_pc = "write"
    /\ w_pc = "idle"
    /\ WriteEnter(wk_proc)
    /\ wk_pc' = "writing"
    /\ wk_wrote' = Append(wk_wrote, "processed")
    /\ wk_trace' = Append(wk_trace, Visit("write", None, TRUE, wk_proc, wk_proc))
    /\ UNCHANGED <<wk_in, wk_proc, wk_byp, wk_vol, frame_count, wk_timeouts>>
    /\ UNCHANGED <<workerFrame, capVars>>

\* if frame_count % 100 == 0
LogInterval == 100

\* the peak is looked for in every frame
PeakRaises_Always(n, f) == TRUE

\* peak = np.max(np.abs(processed)) raises ValueError: the frame logged has
\* no sample
PeakRaises(n, f) == n % LogInterval = 0 /\ Length(f.data) = 0

\* write() has returned. After the write of the processed frame come the
\* logging of the peak, which the handler catches when it raises,
\* frame_count += 1 and the statistics; after the write of the handler the
\* iteration is over. The locals of the iteration and of the call are gone
WorkerWritten ==
    /\ wk_pc \in {"writing", "exc_writing"}
    /\ w_pc = "ret"
    /\ w_pc' = "idle"
    /\ w_data' = SilentFrame /\ w_drop' = 0 /\ w_before' = <<>>
    /\ w_alone' = TRUE /\ w_put' = FALSE
    /\ IF wk_pc = "writing" /\ PeakRaises(frame_count, wk_proc)
       THEN /\ wk_pc' = "except"
            /\ UNCHANGED <<wk_in, wk_proc, wk_byp, wk_vol, frame_count, wk_wrote, wk_trace>>
       ELSE /\ wk_pc' = "read"
            /\ frame_count' = IF wk_pc = "writing" THEN frame_count + 1 ELSE frame_count
            /\ wk_in' = SilentFrame /\ wk_proc' = SilentFrame
            /\ wk_byp' = <<>> /\ wk_vol' = <<>>
            /\ wk_wrote' = <<>>
            /\ wk_trace' = <<>>
    /\ UNCHANGED wk_timeouts
    /\ UNCHANGED <<workerFrame, capVars>>

\* except Exception: log_error, then write a frame of zeros
WorkerExcept ==
    /\ wk_pc = "except"
    /\ w_pc = "idle"
    /\ WriteEnter(HandlerFrame)
    /\ wk_pc' = "exc_writing"
    /\ wk_wrote' = Append(wk_wrote, "silent")
    /\ UNCHANGED <<wk_in, wk_proc, wk_byp, wk_vol, frame_count, wk_timeouts, wk_trace>>
    /\ UNCHANGED <<workerFrame, capVars>>

(***************************************************************************)
(* VoiceSlotManager.switch_to, one step per access to shared state         *)
(***************************************************************************)
\* len(self.slots)
NumSlots == 5

Threads == 1..SlotThreads

\* the slot indices callers ask for: two slots, one index past the end and
\* one before the start
SlotArgs == {-1, 1, 2, NumSlots}

\* an index below zero passes
ValidSlot_UpperOnly(j) == j < NumSlots

\* 0 <= slot_index < len(self.slots)
ValidSlot(j) == 0 <= j /\ j < NumSlots

\* where a call that returns, or that an exception leaves, puts its thread:
\* a call nested in the `with` block goes back to the end of that block
SlotReturn(t) == IF slot_lock = t THEN "release" ELSE "idle"

\* everything besides the slot manager
slotRest == <<audioVars, lim, noiseVars, extVars>>

\* what the audio thread's apply_crossfade works on, but for the progress
fadeLocals == <<xf_pc, xf_chunk, xf_len, xf_read, xf_last, xf_calls>>

\* everything a step inside switch_to leaves alone whatever it is
slotFrame == <<slotRest, sl_entry, fadeVars>>

\* the call is entered; an invalid index returns False at once
SwitchCall(t) ==
    /\ sl_pc[t] = "idle"
    /\ sl_calls < lim.switches
    /\ sl_calls' = sl_calls + 1
    /\ \E j \in SlotArgs :
          /\ sl_arg' = [sl_arg EXCEPT ![t] = j]
          /\ sl_pc' = [sl_pc EXCEPT ![t] = IF ValidSlot(j) THEN "test" ELSE "idle"]
          /\ sl_entry' = [t |-> t, index |-> j, refused |-> ~ValidSlot(j)]
    /\ UNCHANGED <<current_slot, switching, slot_lock, switch_queue, fade>>
    /\ UNCHANGED <<slotRest, fadeVars>>

\* if self._switching:
SwitchTest(t) ==
    /\ sl_pc[t] = "test"
    /\ sl_pc' = [sl_pc EXCEPT ![t] = IF switching THEN "drain" ELSE "acquire"]
    /\ UNCHANGED <<current_slot, switching, slot_lock, switch_queue, fade, sl_arg, sl_calls>>
    /\ UNCHANGED slotFrame

\* while not self._switch_queue.empty():
SwitchDrain(t) ==
    /\ sl_pc[t] = "drain"
    /\ sl_pc' = [sl_pc EXCEPT ![t] = IF switch_queue # <<>> THEN "drain_get" ELSE "put"]
    /\ UNCHANGED <<current_slot, switching, slot_lock, switch_queue, fade, sl_arg, sl_calls>>
    /\ UNCHANGED slotFrame

\* self._switch_queue.get_nowait(); queue.Empty is not caught and leaves the call
SwitchDrainGet(t) ==
    /\ sl_pc[t] = "drain_get"
    /\ IF switch_queue # <<>>
       THEN /\ switch_queue' = Tail(switch_queue)
            /\ sl_pc' = [sl_pc EXCEPT ![t] = "drain"]
       ELSE /\ sl_pc' = [sl_pc EXCEPT ![t] = SlotReturn(t)]
            /\ UNCHANGED switch_queue
    /\ UNCHANGED <<current_slot, switching, slot_lock, fade, sl_arg, sl_calls>>
    /\ UNCHANGED slotFrame

\* self._switch_queue.put_nowait(slot_index); except queue.Full: pass; return False
SwitchPut(t) ==
    /\ sl_pc[t] = "put"
    /\ switch_queue' = IF Len(switch_queue) < 1
                       THEN Append(switch_queue, sl_arg[t])
                       ELSE switch_queue
    /\ sl_pc' = [sl_pc EXCEPT ![t] = SlotReturn(t)]
    /\ UNCHANGED <<current_slot, switching, slot_lock, fade, sl_arg, sl_calls>>
    /\ UNCHANGED slotFrame

\* with self._lock: the lock is a threading.Lock, which its holder cannot
\* take a second time
SwitchAcquire(t) ==
    /\ sl_pc[t] = "acquire"
    /\ slot_lock = 0
    /\ slot_lock' = t
    /\ sl_pc' = [sl_pc EXCEPT ![t] = "begin"]
    /\ UNCHANGED <<current_slot, switching, switch_queue, fade, sl_arg, sl_calls>>
    /\ UNCHANGED slotFrame

\* self._switching = True
SwitchBegin(t) ==
    /\ sl_pc[t] = "begin"
    /\ switching' = TRUE
    /\ sl_pc' = [sl_pc EXCEPT ![t] = "crossfade"]
    /\ UNCHANGED <<current_slot, slot_lock, switch_queue, fade, sl_arg, sl_calls>>
    /\ UNCHANGED slotFrame

\* self._do_crossfade(self.current_slot, slot_index)
SwitchCrossfade(t) ==
    /\ sl_pc[t] = "crossfade"
    /\ fade' = <<[from |-> current_slot, to |-> sl_arg[t]]>>
    /\ fade_progress' = 0
    /\ sl_pc' = [sl_pc EXCEPT ![t] = "set_current"]
    /\ UNCHANGED <<current_slot, switching, slot_lock, switch_queue, sl_arg, sl_calls>>
    /\ UNCHANGED <<slotRest, sl_entry, fadeLocals>>

\* self.current_slot = slot_index
SwitchSetCurrent(t) ==
    /\ sl_pc[t] = "set_current"
    /\ current_slot' = sl_arg[t]
    /\ sl_pc' = [sl_pc EXCEPT ![t] = "finally"]
    /\ UNCHANGED <<switching, slot_lock, switch_queue, fade, sl_arg, sl_calls>>
    /\ UNCHANGED slotFrame

\* finally: self._switching = False
SwitchFinally(t) ==
    /\ sl_pc[t] = "finally"
    /\ switching' = FALSE
    /\ sl_pc' = [sl_pc EXCEPT ![t] = "queue_check"]
    /\ UNCHANGED <<current_slot, slot_lock, switch_queue, fade, sl_arg, sl_calls>>
    /\ UNCHANGED slotFrame

\* if not self._switch_queue.empty():
SwitchQueueCheck(t) ==
    /\ sl_pc[t] = "queue_check"
    /\ sl_pc' = [sl_pc EXCEPT ![t] = IF switch_queue # <<>> THEN "get" ELSE "release"]
    /\ UNCHANGED <<current_slot, switching, slot_lock, switch_queue, fade, sl_arg, sl_calls>>
    /\ UNCHANGED slotFrame

\* next_slot = self._switch_queue.get_nowait(); self.switch_to(next_slot):
\* the nested call is entered inside the `with` block, its index is valid
SwitchGet(t) ==
    /\ sl_pc[t] = "get"
    /\ IF switch_queue # <<>>
       THEN /\ switch_queue' = Tail(switch_queue)
            /\ sl_arg' = [sl_arg EXCEPT ![t] = Head(switch_queue)]
            /\ sl_pc' = [sl_pc EXCEPT ![t] = "test"]
       ELSE \* queue.Empty leaves the `with` block
            /\ sl_pc' = [sl_pc EXCEPT ![t] = "release"]
            /\ UNCHANGED <<switch_queue, sl_arg>>
    /\ UNCHANGED <<current_slot, switching, slot_lock, fade, sl_calls>>
    /\ UNCHANGED slotFrame

\* the `with` block is left: the lock is released and the outer call returns
SwitchRelease(t) ==
    /\ sl_pc[t] = "release"
    /\ slot_lock' = 0
    /\ sl_pc' = [sl_pc EXCEPT ![t] = "idle"]
    /\ UNCHANGED <<current_slot, switching, switch_queue, fade, sl_arg, sl_calls>>
    /\ UNCHANGED slotFrame

\* VoiceSlotManager.__init__
\* _do_crossfade: fade_samples = int(crossfade_duration_ms / 1000 * 44100),
\* the length of both curves
FadeLen == (100 * 44100) \div 1000

\* the lengths of the chunks the audio thread passes: an empty block, the
\* engine's chunk and a block four chunks long
XfChunks == {0, CHUNK_SIZE, 4 * CHUNK_SIZE}

\* `min(chunk_len, remaining)`
MinOf(a, b) == IF a <= b THEN a ELSE b

\* `self._fade_out_curve is None or self._fade_progress >= len(curve)`
FadeOver == fade = <<>> \/ fade_progress >= FadeLen

\* apply_crossfade, entry: the test of the first line; a finished or absent
\* crossfade returns the chunk as it came
ApplyCall ==
    /\ xf_pc = "idle"
    /\ xf_calls < lim.xcalls
    /\ xf_calls' = xf_calls + 1
    /\ \E n \in XfChunks :
          IF FadeOver
          THEN /\ xf_last' = [chunk |-> n, applied |-> 0, touched |-> FALSE]
               /\ UNCHANGED <<xf_pc, xf_chunk>>
          ELSE /\ xf_chunk' = n
               /\ xf_pc' = "measure"
               /\ UNCHANGED xf_last
    /\ UNCHANGED <<fade_progress, xf_len, xf_read>>
    /\ UNCHANGED <<current_slot, switching, slot_lock, switch_queue, fade, sl_pc, sl_arg,
                   sl_calls, sl_entry>>
    /\ UNCHANGED slotRest

\* remaining = len(curve) - progress; apply_len = min(chunk_len, remaining)
ApplyMeasure ==
    /\ xf_pc = "measure"
    /\ xf_len' = MinOf(xf_chunk, FadeLen - fade_progress)
    /\ xf_pc' = "blend"
    /\ UNCHANGED <<fade_progress, xf_chunk, xf_read, xf_last, xf_calls>>
    /\ UNCHANGED <<current_slot, switching, slot_lock, switch_queue, fade, sl_pc, sl_arg,
                   sl_calls, sl_entry>>
    /\ UNCHANGED slotRest

\* the curve slices and the blend into audio_chunk[:apply_len]; then the
\* load of `self._fade_progress += apply_len`
ApplyBlend ==
    /\ xf_pc = "blend"
    /\ xf_read' = fade_progress
    /\ xf_pc' = "store"
    /\ UNCHANGED <<fade_progress, xf_chunk, xf_len, xf_last, xf_calls>>
    /\ UNCHANGED <<current_slot, switching, slot_lock, switch_queue, fade, sl_pc, sl_arg,
                   sl_calls, sl_entry>>
    /\ UNCHANGED slotRest

\* the store of `self._fade_progress += apply_len`, and the return
ApplyStore ==
    /\ xf_pc = "store"
    /\ fade_progress' = xf_read + xf_len
    /\ xf_last' = [chunk |-> xf_chunk, applied |-> xf_len, touched |-> TRUE]
    /\ xf_pc' = "idle"
    /\ xf_chunk' = 0
    /\ xf_len' = 0
    /\ xf_read' = 0
    /\ UNCHANGED xf_calls
    /\ UNCHANGED <<current_slot, switching, slot_lock, switch_queue, fade, sl_pc, sl_arg,
                   sl_calls, sl_entry>>
    /\ UNCHANGED slotRest

SlotInit ==
    /\ current_slot = 0
    /\ switching = FALSE
    /\ slot_lock = 0
    /\ switch_queue = <<>>
    /\ fade = <<>>
    /\ sl_pc = [t \in Threads |-> "idle"]
    /\ sl_arg = [t \in Threads |-> 0]
    /\ sl_calls = 0
    /\ sl_entry = [t |-> 0, index |-> 0, refused |-> FALSE]
    /\ fade_progress = 0
    /\ xf_pc = "idle"
    /\ xf_chunk = 0
    /\ xf_len = 0
    /\ xf_read = 0
    /\ xf_last = [chunk |-> 0, applied |-> 0, touched |-> FALSE]
    /\ xf_calls = 0

(***************************************************************************)
(* NoiseCanceller: each public method is one step                          *)
(***************************************************************************)
Intensities == {"light", "medium", "aggressive"}

\* the intensities callers pass: the three levels and a name that is none
IntensityArgs == Intensities \cup {"extreme"}

\* self._intensity_map.get(self.intensity, 0.8), in hundredths
PropDecrease(i) ==
    CASE i = "light"      -> 50
      [] i = "medium"     -> 80
      [] i = "aggressive" -> 100
      [] OTHER            -> 80

\* the audio handed to process(): an empty buffer, a silent one, a voiced one
NoiseInputs == {MkFrame(0, <<>>), SilentFrame, Captured(1, 5)}

\* the threshold misread: fallback on the first error
FallbackDue_Early(errors) == errors >= 1

\* the threshold misread: fallback one error late
FallbackDue_Late(errors) == errors > 3

\* if self._error_count >= 3
FallbackDue(errors) == errors >= 3

\* a call of the record nc_last
NcCall(op, in, out, invoked, raised) ==
    [op |-> op, in |-> in, out |-> out, invoked |-> invoked, raised |-> raised]

\* a call that handles no audio
NcControl(op) == NcCall(op, SilentFrame, SilentFrame, FALSE, FALSE)

\* nc_streak after a call. 0..3: the process() calls so far are that many
\* calls in which the backend raised, and nothing else; 4: three such calls,
\* then only process() calls, with no enable() since; -1: any other history.
NextStreak(streak, call) ==
    IF call.op = "process"
    THEN IF call.raised
         THEN IF streak \in 0..2 THEN streak + 1 ELSE -1
         ELSE IF streak \in {3, 4} THEN 4 ELSE -1
    ELSE IF call.op = "enable" /\ streak \in {3, 4} THEN -1
    ELSE streak

noiseFrame == <<audioVars, lim, slotVars, extVars>>

\* the bookkeeping every call shares
NcRecord(call) ==
    /\ nc_calls < lim.ncalls
    /\ nc_calls' = nc_calls + 1
    /\ nc_last' = call
    /\ nc_streak' = NextStreak(nc_streak, call)
    /\ UNCHANGED noiseFrame

NcEnable ==
    /\ NcRecord(NcControl("enable"))
    /\ nc_enabled' = TRUE
    /\ nc_fallback' = FALSE
    /\ UNCHANGED <<nc_intensity, nc_processed, nc_errors>>

NcDisable ==
    /\ NcRecord(NcControl("disable"))
    /\ nc_enabled' = FALSE
    /\ UNCHANGED <<nc_fallback, nc_intensity, nc_processed, nc_errors>>

\* every value passes for a level
ValidIntensity_Any(i) == TRUE

\* intensity in self._intensity_map
ValidIntensity(i) == i \in Intensities

\* set_intensity(i): the record of the call holds its argument
NcSetIntensity ==
    /\ \E i \in IntensityArgs :
          /\ NcRecord([op |-> "set_intensity", in |-> SilentFrame, out |-> SilentFrame,
                       invoked |-> FALSE, raised |-> FALSE, arg |-> i])
          /\ nc_intensity' = IF ValidIntensity(i) THEN i ELSE nc_intensity
    /\ UNCHANGED <<nc_enabled, nc_fallback, nc_processed, nc_errors>>

\* process(audio, sample_rate); `fails` is whether noisereduce.reduce_noise
\* raises if it is called
NcProcess ==
    \E audio \in NoiseInputs, fails \in BOOLEAN :
       IF ~nc_enabled \/ nc_fallback
       THEN /\ NcRecord(NcCall("process", audio, audio, FALSE, FALSE))
            /\ UNCHANGED <<nc_enabled, nc_fallback, nc_intensity, nc_processed, nc_errors>>
       ELSE IF Length(audio.data) = 0 \/ AllEqual(audio.data, 0)
       THEN /\ NcRecord(NcCall("process", audio, audio, FALSE, FALSE))
            /\ UNCHANGED <<nc_enabled, nc_fallback, nc_intensity, nc_processed, nc_errors>>
       ELSE IF fails
       THEN /\ NcRecord(NcCall("process", audio, audio, TRUE, TRUE))
            /\ nc_errors' = nc_errors + 1
            /\ nc_fallback' = IF FallbackDue(nc_errors') THEN TRUE ELSE nc_fallback
            /\ UNCHANGED <<nc_enabled, nc_intensity, nc_processed>>
       ELSE /\ NcRecord(NcCall("process", audio,
                               Tag(audio, "denoise", PropDecrease(nc_intensity)),
                               TRUE, FALSE))
            /\ nc_processed' = nc_processed + 1
            /\ UNCHANGED <<nc_enabled, nc_fallback, nc_intensity, nc_errors>>

\* NoiseCanceller.__init__(intensity)
NcInit ==
    /\ nc_enabled = TRUE
    /\ nc_fallback = FALSE
    /\ nc_intensity \in {IF i \in Intensities THEN i ELSE "medium" : i \in IntensityArgs}
    /\ nc_processed = 0
    /\ nc_errors = 0
    /\ nc_last = NcControl("init")
    /\ nc_streak = 0
    /\ nc_calls = 0

\* the engine's canceller: NoiseCanceller(intensity="medium"), then disable()
EngineNcInit ==
    /\ nc_enabled = FALSE
    /\ nc_fallback = FALSE
    /\ nc_intensity = "medium"
    /\ nc_processed = 0
    /\ nc_errors = 0
    /\ nc_last = NcControl("disable")
    /\ nc_streak = 0
    /\ nc_calls = 0

(***************************************************************************)
(* CircularBuffer (buffer_manager.py)                                      *)
(***************************************************************************)
\* data[n:]
RECURSIVE Drop(_, _)
Drop(a, n) ==
    IF n = 0 \/ a = <<>> THEN a
    ELSE IF Head(a).cnt > n THEN <<[cnt |-> Head(a).cnt - n, val |-> Head(a).val]>> \o Tail(a)
         ELSE Drop(Tail(a), n - Head(a).cnt)

\* data[-n:] for 0 < n <= len(data)
LastSamples(a, n) == Drop(a, Length(a) - n)

\* buffer[i:i + len(data)] = data
AssignSlice(buf, i, data) ==
    Norm(Take(buf, i) \o data \o Drop(buf, i + Length(data)))

\* the sample at index i (from 0) of an array
RECURSIVE Sample(_, _)
Sample(a, i) == IF i < Head(a).cnt THEN Head(a).val ELSE Sample(Tail(a), i - Head(a).cnt)

\* the wrap-around split with the two parts stored in each other's place
WrapAround_Swapped(buf, wp, data) ==
    LET part1 == Length(buf) - wp
    IN  AssignSlice(AssignSlice(buf, wp, Drop(data, Length(data) - part1)),
                    0, Take(data, Length(data) - part1))

\* buffer[write_ptr:capacity] = data[:part1]; buffer[0:part2] = data[part1:]
WrapAround(buf, wp, data) ==
    LET part1 == Length(buf) - wp
    IN  AssignSlice(AssignSlice(buf, wp, Take(data, part1)), 0, Drop(data, part1))

\* the samples write() stores: all of them, or the last `capacity`
Stored(data, capacity) ==
    IF Length(data) > capacity THEN LastSamples(data, capacity) ELSE data

\* the buffer write() leaves
Stores(buf, wp, data) ==
    LET capacity == Length(buf)
        d == Stored(data, capacity)
        space_left == capacity - wp
    IN  IF Length(d) <= space_left THEN AssignSlice(buf, wp, d) ELSE WrapAround(buf, wp, d)

\* a ring written one sample at a time: position p takes the sample, then
\* the position advances by one, wrapping
RECURSIVE RingPut(_, _, _, _)
RingPut(ring, p, data, c) ==
    IF data = <<>> THEN ring
    ELSE RingPut([ring EXCEPT ![p] = Head(data).val], (p + 1) % c, Drop(data, 1), c)

\* the data of write call number k (from 0), n samples long: the samples of
\* all calls are numbered 1, 2, 3, ... in the order they are handed over
RECURSIVE Ramp(_, _)
Ramp(first, n) == IF n = 0 THEN <<>> ELSE <<[cnt |-> 1, val |-> first]>> \o Ramp(first + 1, n - 1)

\* the lengths of the arrays handed to write(): one sample, half the
\* capacity and one more, the capacity and one more, one and a half times it
BufLengths(c) == {1, c \div 2, c \div 2 + 1, c, c + 1, c + c \div 2}

\* CircularBuffer.write(data)
BufferWrite ==
    /\ buf_calls < lim.bwrites
    /\ buf_calls' = buf_calls + 1
    /\ \E n \in BufLengths(Length(buf_data)) :
         LET data == Ramp(buf_handed + 1, n)
             d == Stored(data, Length(buf_data))
         IN  /\ buf_data' = Stores(buf_data, write_ptr, data)
             /\ write_ptr' = (write_ptr + Length(d)) % Length(buf_data)
             /\ buf_handed' = buf_handed + n
             /\ buf_total' = buf_total + Length(d)
             /\ buf_shadow' = RingPut(buf_shadow, buf_total % Length(buf_data), d, Length(buf_data))
             /\ buf_last' = [len |-> n, wp |-> write_ptr]
    /\ UNCHANGED <<read_ptr, prev_tail>>
    /\ UNCHANGED <<cfg, lim, capVars, outVars, writeVars, h_n, paramVars, workerVars,
                   slotVars, noiseVars, lifeVars, dspVars, fxVars, moreVars>>

\* CircularBuffer.clear(), as an action part
BufferClear ==
    /\ buf_data' = Const(Length(buf_data), 0)
    /\ write_ptr' = 0
    /\ read_ptr' = 0
    /\ prev_tail' = Const(Length(prev_tail), 0)
    /\ buf_total' = 0
    /\ buf_shadow' = [p \in DOMAIN buf_shadow |-> 0]
    /\ buf_last' = [len |-> 0, wp |-> 0]
    /\ UNCHANGED <<buf_calls, buf_handed>>

\* buffer.clear() called between writes
BufferClearCall ==
    /\ buf_calls < lim.bwrites
    /\ buf_total > 0
    /\ BufferClear
    /\ UNCHANGED <<cfg, lim, capVars, outVars, writeVars, h_n, paramVars, workerVars,
                   slotVars, noiseVars, lifeVars, dspVars, fxVars, moreVars>>

\* CircularBuffer(size_chunks, chunk_size).__init__
BufferInit(size_chunks, chunk_size, flen) ==
    /\ buf_data = Const(size_chunks * chunk_size, 0)
    /\ write_ptr = 0
    /\ read_ptr = 0
    /\ prev_tail = Const(flen, 0)
    /\ buf_total = 0
    /\ buf_handed = 0
    /\ buf_shadow = [p \in 0..(size_chunks * chunk_size - 1) |-> 0]
    /\ buf_calls = 0
    /\ buf_last = [len |-> 0, wp |-> 0]

(***************************************************************************)
(* CircularBuffer.apply_crossfade (core/buffer_manager.py)                 *)
(***************************************************************************)
\* chunks of one fade length count as long enough
TooShort_Half(n, flen) == n < flen

\* len(current_chunk) < self.fade_len * 2
TooShort(n, flen) == n < flen * 2

\* prev_tail * fade_out + processed[:fade_len] * fade_in, the two ramps
\* being np.linspace over fade_len points: sample i takes i / (fade_len - 1)
\* of the chunk and the rest of the tail
Blend(tail, head) ==
    LET n == Length(tail)
    IN  Norm([i \in 1..n |->
                [cnt |-> 1,
                 val |-> (Sample(tail, i - 1) * (n - i) + Sample(head, i - 1) * (i - 1))
                            \div (n - 1)]])

\* np.any(self.prev_tail != 0)
AnyNonZero(a) == ~AllEqual(a, 0)

\* the chunks handed to apply_crossfade: shorter than the fade, one sample
\* short of twice the fade, twice the fade and the engine's chunk; silent,
\* at one level, or stepping from one level to another after the fade
TailLevel == 12 * 8
TailChunks(flen) ==
    LET lens == {flen \div 2, 2 * flen - 1, 2 * flen, 4 * flen}
    IN  {Const(n, v) : n \in lens, v \in {0, TailLevel}}
        \cup {Norm(Const(flen, TailLevel) \o Const(n - flen, -TailLevel))
                 : n \in lens \ {flen \div 2}}

NoApply == [arg |-> <<>>, arg_after |-> <<>>, out |-> <<>>, tail_before |-> <<>>]

\* CircularBuffer.apply_crossfade(current_chunk)
CrossfadeApply ==
    /\ cf_calls < lim.tcalls
    /\ cf_calls' = cf_calls + 1
    /\ \E chunk \in TailChunks(fade_len) :
          LET processed ==
                  IF AnyNonZero(prev_tail)
                  THEN AssignSlice(chunk, 0, Blend(prev_tail, Take(chunk, fade_len)))
                  ELSE chunk
          IN  IF TooShort(Length(chunk), fade_len)
              THEN /\ cf_last' = [arg |-> chunk, arg_after |-> chunk, out |-> chunk,
                                  tail_before |-> prev_tail]
                   /\ UNCHANGED prev_tail
              ELSE /\ cf_last' = [arg |-> chunk, arg_after |-> chunk, out |-> processed,
                                  tail_before |-> prev_tail]
                   /\ prev_tail' = LastSamples(chunk, fade_len)
    /\ UNCHANGED <<buf_data, write_ptr, read_ptr, buf_handed, buf_total, buf_shadow, buf_calls,
                   buf_last, fade_len>>
    /\ UNCHANGED <<cfg, lim, capVars, outVars, writeVars, h_n, paramVars, workerVars,
                   slotVars, noiseVars, lifeVars, dspVars, fxVars, routeVars, eqVars, clipVars,
                   trackVars, enhVars>>

\* buffer.clear() between two chunks
CrossfadeClear ==
    /\ cf_calls > 0
    /\ AnyNonZero(prev_tail)
    /\ BufferClear
    /\ UNCHANGED <<cfg, lim, capVars, outVars, writeVars, h_n, paramVars, workerVars,
                   slotVars, noiseVars, lifeVars, dspVars, fxVars, moreVars>>

\* self.fade_len = config.CROSSFADE_LENGTH; no chunk yet
TailInit(flen) ==
    /\ fade_len = flen
    /\ cf_last = NoApply
    /\ cf_calls = 0

(***************************************************************************)
(* VoiceChangerEngine.start / stop, the processing worker's loop and the   *)
(* monitor worker's loop, with time.                                       *)
(*                                                                         *)
(* Time advances in ticks of 0.5 s, the greatest common divisor of the     *)
(* timed waits. A thread that can take a step takes it before the next     *)
(* tick; only a timed wait lets time pass.                                 *)
(***************************************************************************)
\* VoiceChangerEngine.__init__: self.params
DefaultParams ==
    [pitch_shift |-> Num(0), formant_ratio |-> Num(100), bypass |-> FALSE, volume |-> Num(100)]

\* config.SAMPLE_RATE
SAMPLE_RATE == 44100
\* self.capture.read(timeout=0.5), in ticks
READ_TIMEOUT == 1
\* self.process_thread.join(timeout=1.0), in ticks
JOIN_PROCESS == 2
\* self.monitor_thread.join(timeout=0.5), in ticks
JOIN_MONITOR == 1
\* time.sleep(1.0), in ticks
MONITOR_SLEEP == 2

\* VoiceChangerEngine.__init__: self.stats
InitialStats == [fps |-> 0, latency_ms |-> 0, cpu_percent |-> 0, ram_mb |-> 0]

\* the stats after the processing worker measured a frame: proc_time plus
\* the queued chunks is positive (1 stands for any positive value)
Measured(s) == [s EXCEPT !.latency_ms = 1]

\* the stats after the monitor worker sampled the process: the resident
\* memory is positive, fps is SAMPLE_RATE / CHUNK_SIZE
Sampled(s) == [s EXCEPT !.cpu_percent = 1, !.ram_mb = 1, !.fps = SAMPLE_RATE \div CHUNK_SIZE]

\* a thread object and Thread.is_alive()
Thread(pc, wait) == [pc |-> pc, wait |-> wait]
Alive(th) == th.pc # "dead"
HasLive(threads) == threads # <<>> /\ Alive(threads[Len(threads)])

\* how a call of the control thread ended
Outcome(op, res, err) == [op |-> op, res |-> res, err |-> err]

\* while not self.stop_event.is_set(), with the test left out
LoopContinues_Always(ev) == TRUE

\* while not self.stop_event.is_set()
LoopContinues(ev) == ~ev

\* start()'s except clause skipped: the error is raised at once
AfterStreamError_NoStop(s) == "raise"

\* except Exception as e: logger.critical(...); self.stop(); raise e
AfterStreamError(s) == "except"

\* the ways sd.InputStream / sd.OutputStream can fail: the constructor
\* raises (the stream attribute keeps its value) or stream.start() raises
\* (the attribute holds the stream that was created)
OpenFailures(stream) == {stream, "open"}

\* start(): the guard, stop_event.clear(), running = True
StartCall ==
    /\ ctl_pc = "idle"
    /\ ctl_calls < lim.calls
    /\ ctl_calls' = ctl_calls + 1
    /\ IF eng_running
       THEN /\ ctl_last' = Outcome("start", "noop", <<>>)
            /\ UNCHANGED <<eng_running, stop_event, ctl_pc, run_base>>
       ELSE /\ stop_event' = FALSE
            /\ eng_running' = TRUE
            /\ ctl_pc' = "reset"
            /\ run_base' = [cb |-> cb_n, oc |-> out_calls,
                            pt |-> Len(pthreads), mt |-> Len(mthreads)]
            /\ UNCHANGED ctl_last
    /\ UNCHANGED <<cap_stream, out_stream, ctl_wait, ctl_err, pthreads, mthreads, stats>>
    /\ UNCHANGED <<cfg, lim, capVars, outVars, writeVars, h_n, paramVars, workerVars,
                   slotVars, noiseVars, bufVars, dspVars, fxVars, moreVars>>

\* pitch_proc.reset(); formant_proc.reset(); buffer_manager.clear()
StartReset ==
    /\ ctl_pc = "reset"
    /\ ctl_pc' = "capture"
    /\ BufferClear
    /\ UNCHANGED <<eng_running, stop_event, cap_stream, out_stream, ctl_wait, ctl_err,
                   ctl_last, ctl_calls, pthreads, mthreads, stats, run_base>>
    /\ UNCHANGED <<cfg, lim, capVars, outVars, writeVars, h_n, paramVars, workerVars,
                   slotVars, noiseVars, dspVars, fxVars, moreVars>>

\* self.capture.start()
StartCapture ==
    /\ ctl_pc = "capture"
    /\ IF cap_running
       THEN /\ ctl_pc' = "output"
            /\ UNCHANGED <<cap_running, dropped_frames, cap_stream, ctl_err>>
       ELSE /\ dropped_frames' = 0
            /\ \/ /\ cap_running' = TRUE
                  /\ cap_stream' = "active"
                  /\ ctl_pc' = "output"
                  /\ UNCHANGED ctl_err
               \/ /\ cap_running' = FALSE
                  /\ cap_stream' \in OpenFailures(cap_stream)
                  /\ ctl_err' = <<"capture">>
                  /\ ctl_pc' = AfterStreamError("capture")
    /\ UNCHANGED <<cap_queue, cb_pc, cb_data, cb_n, enqueued>>
    /\ UNCHANGED <<eng_running, stop_event, out_stream, ctl_wait, ctl_last, ctl_calls,
                   pthreads, mthreads, stats, run_base>>
    /\ UNCHANGED <<cfg, lim, outVars, writeVars, h_n, paramVars, workerVars,
                   slotVars, noiseVars, bufVars, dspVars, fxVars, moreVars>>

\* self.output.start()
StartOutput ==
    /\ ctl_pc = "output"
    /\ IF out_running
       THEN /\ ctl_pc' = "spawn_process"
            /\ UNCHANGED <<out_running, out_stream, ctl_err>>
       ELSE \/ /\ out_running' = TRUE
               /\ out_stream' = "active"
               /\ ctl_pc' = "spawn_process"
               /\ UNCHANGED ctl_err
            \/ /\ out_running' = FALSE
               /\ out_stream' \in OpenFailures(out_stream)
               /\ ctl_err' = <<"output">>
               /\ ctl_pc' = AfterStreamError("output")
    /\ UNCHANGED <<out_queue, underflow_count, outdata, out_calls, last_rendered>>
    /\ UNCHANGED <<eng_running, stop_event, cap_stream, ctl_wait, ctl_last, ctl_calls,
                   pthreads, mthreads, stats, run_base>>
    /\ UNCHANGED <<cfg, lim, capVars, writeVars, h_n, paramVars, workerVars,
                   slotVars, noiseVars, bufVars, dspVars, fxVars, moreVars>>

\* self.process_thread = threading.Thread(...); self.process_thread.start()
StartProcessThread ==
    /\ ctl_pc = "spawn_process"
    /\ ctl_pc' = "spawn_monitor"
    /\ pthreads' = Append(pthreads, Thread("test", 0))
    /\ UNCHANGED <<eng_running, stop_event, cap_stream, out_stream, ctl_wait, ctl_err,
                   ctl_last, ctl_calls, mthreads, stats, run_base>>
    /\ UNCHANGED <<cfg, lim, capVars, outVars, writeVars, h_n, paramVars, workerVars,
                   slotVars, noiseVars, bufVars, dspVars, fxVars, moreVars>>

\* self.monitor_thread = threading.Thread(...); self.monitor_thread.start();
\* start() returns
StartMonitorThread ==
    /\ ctl_pc = "spawn_monitor"
    /\ ctl_pc' = "idle"
    /\ mthreads' = Append(mthreads, Thread("test", 0))
    /\ ctl_last' = Outcome("start", "ok", <<>>)
    /\ UNCHANGED <<eng_running, stop_event, cap_stream, out_stream, ctl_wait, ctl_err,
                   ctl_calls, pthreads, stats, run_base>>
    /\ UNCHANGED <<cfg, lim, capVars, outVars, writeVars, h_n, paramVars, workerVars,
                   slotVars, noiseVars, bufVars, dspVars, fxVars, moreVars>>

\* stop(): self.running = False; self.stop_event.set()
StopEnter ==
    /\ eng_running' = FALSE
    /\ stop_event' = TRUE
    /\ ctl_pc' = "stop_capture"
    /\ UNCHANGED <<cap_stream, out_stream, ctl_wait, ctl_err, ctl_last, pthreads, mthreads,
                   stats, run_base>>
    /\ UNCHANGED <<cfg, lim, capVars, outVars, writeVars, h_n, paramVars, workerVars,
                   slotVars, noiseVars, bufVars, dspVars, fxVars, moreVars>>

\* stop() called by the control thread
StopCall ==
    /\ ctl_pc = "idle"
    /\ ctl_calls < lim.calls
    /\ ctl_calls' = ctl_calls + 1
    /\ StopEnter

\* start()'s except clause: self.stop()
StartExcept ==
    /\ ctl_pc = "except"
    /\ UNCHANGED ctl_calls
    /\ StopEnter

\* self.capture.stop(); stream.stop() returns once a callback in progress
\* has ended
StopCapture ==
    /\ ctl_pc = "stop_capture"
    /\ cap_stream = "active" => cb_pc = "idle"
    /\ ctl_pc' = "stop_output"
    /\ cap_running' = FALSE
    /\ cap_stream' = "none"
    /\ UNCHANGED <<cap_queue, dropped_frames, cb_pc, cb_data, cb_n, enqueued>>
    /\ UNCHANGED <<eng_running, stop_event, out_stream, ctl_wait, ctl_err, ctl_last, ctl_calls,
                   pthreads, mthreads, stats, run_base>>
    /\ UNCHANGED <<cfg, lim, outVars, writeVars, h_n, paramVars, workerVars,
                   slotVars, noiseVars, bufVars, dspVars, fxVars, moreVars>>

\* self.output.stop(), then the is_alive() test before the first join
StopOutput ==
    /\ ctl_pc = "stop_output"
    /\ out_running' = FALSE
    /\ out_stream' = "none"
    /\ IF HasLive(pthreads)
       THEN ctl_pc' = "join_process" /\ ctl_wait' = JOIN_PROCESS
       ELSE ctl_pc' = "test_monitor" /\ UNCHANGED ctl_wait
    /\ UNCHANGED <<out_queue, underflow_count, outdata, out_calls, last_rendered>>
    /\ UNCHANGED <<eng_running, stop_event, cap_stream, ctl_err, ctl_last, ctl_calls,
                   pthreads, mthreads, stats, run_base>>
    /\ UNCHANGED <<cfg, lim, capVars, writeVars, h_n, paramVars, workerVars,
                   slotVars, noiseVars, bufVars, dspVars, fxVars, moreVars>>

\* self.process_thread.join(timeout=1.0) returns: the thread ended, or the
\* timeout expired
JoinProcess ==
    /\ ctl_pc = "join_process"
    /\ ~HasLive(pthreads) \/ ctl_wait = 0
    /\ ctl_pc' = "test_monitor"
    /\ ctl_wait' = 0
    /\ UNCHANGED <<eng_running, stop_event, cap_stream, out_stream, ctl_err, ctl_last,
                   ctl_calls, pthreads, mthreads, stats, run_base>>
    /\ UNCHANGED <<cfg, lim, capVars, outVars, writeVars, h_n, paramVars, workerVars,
                   slotVars, noiseVars, bufVars, dspVars, fxVars, moreVars>>

\* if self.monitor_thread and self.monitor_thread.is_alive()
StopTestMonitor ==
    /\ ctl_pc = "test_monitor"
    /\ IF HasLive(mthreads)
       THEN ctl_pc' = "join_monitor" /\ ctl_wait' = JOIN_MONITOR
       ELSE ctl_pc' = "return" /\ UNCHANGED ctl_wait
    /\ UNCHANGED <<eng_running, stop_event, cap_stream, out_stream, ctl_err, ctl_last,
                   ctl_calls, pthreads, mthreads, stats, run_base>>
    /\ UNCHANGED <<cfg, lim, capVars, outVars, writeVars, h_n, paramVars, workerVars,
                   slotVars, noiseVars, bufVars, dspVars, fxVars, moreVars>>

\* self.monitor_thread.join(timeout=0.5) returns
JoinMonitor ==
    /\ ctl_pc = "join_monitor"
    /\ ~HasLive(mthreads) \/ ctl_wait = 0
    /\ ctl_pc' = "return"
    /\ ctl_wait' = 0
    /\ UNCHANGED <<eng_running, stop_event, cap_stream, out_stream, ctl_err, ctl_last,
                   ctl_calls, pthreads, mthreads, stats, run_base>>
    /\ UNCHANGED <<cfg, lim, capVars, outVars, writeVars, h_n, paramVars, workerVars,
                   slotVars, noiseVars, bufVars, dspVars, fxVars, moreVars>>

\* stop() returns, to its caller or into start()'s except clause
StopReturn ==
    /\ ctl_pc = "return"
    /\ IF ctl_err = <<>>
       THEN ctl_pc' = "idle" /\ ctl_last' = Outcome("stop", "ok", <<>>)
       ELSE ctl_pc' = "raise" /\ UNCHANGED ctl_last
    /\ UNCHANGED <<eng_running, stop_event, cap_stream, out_stream, ctl_wait, ctl_err,
                   ctl_calls, pthreads, mthreads, stats, run_base>>
    /\ UNCHANGED <<cfg, lim, capVars, outVars, writeVars, h_n, paramVars, workerVars,
                   slotVars, noiseVars, bufVars, dspVars, fxVars, moreVars>>

\* raise e: start() ends with the stream's error
StartRaise ==
    /\ ctl_pc = "raise"
    /\ ctl_pc' = "idle"
    /\ ctl_last' = Outcome("start", "raised", ctl_err)
    /\ ctl_err' = <<>>
    /\ UNCHANGED <<eng_running, stop_event, cap_stream, out_stream, ctl_wait,
                   ctl_calls, pthreads, mthreads, stats, run_base>>
    /\ UNCHANGED <<cfg, lim, capVars, outVars, writeVars, h_n, paramVars, workerVars,
                   slotVars, noiseVars, bufVars, dspVars, fxVars, moreVars>>

\* the device invokes the callbacks of its active streams
DeviceCapture == cap_stream = "active" /\ CaptureCallback
DeviceOutput == out_stream = "active" /\ OutputCallback

\* AudioOutput.write run to its end on queue q: the queue it leaves
RECURSIVE Drained(_)
Drained(q) == IF q # <<>> /\ AboveWatermark(Len(q)) THEN Drained(Tail(q)) ELSE q
Written(q, frame) ==
    LET d == IF NeedsCatchUp(Len(q)) THEN Drained(q) ELSE q
    IN  IF Len(d) < cfg.MAX_OUTPUT_QUEUE THEN Enqueue(d, frame) ELSE d

\* what is left unchanged by a step of a worker
lifeWorkerFrame ==
    <<cfg, lim, writeVars, h_n, paramVars, workerVars, slotVars, noiseVars,
      bufVars, dspVars, fxVars, moreVars,
      eng_running, stop_event, cap_stream, out_stream, ctl_pc, ctl_wait, ctl_err, ctl_last,
      ctl_calls, run_base>>

\* _process_loop of thread g: the loop test
ProcTest(g) ==
    /\ g \in 1..Len(pthreads)
    /\ pthreads[g].pc = "test"
    /\ pthreads' = [pthreads EXCEPT ![g] = IF LoopContinues(stop_event)
                                           THEN Thread("read", READ_TIMEOUT)
                                           ELSE Thread("dead", 0)]
    /\ UNCHANGED <<lifeWorkerFrame, capVars, outVars, mthreads, stats>>

\* one iteration on a frame, with the parameters of __init__: the copy
\* passes every stage untouched and is written to the output
ProcFrame(g) ==
    /\ g \in 1..Len(pthreads)
    /\ pthreads[g].pc = "read"
    /\ cap_queue # <<>>
    /\ params = DefaultParams /\ fx_enabled = {}
    /\ cap_queue' = CaptureRead(cap_queue).rest
    /\ out_queue' = Written(out_queue, CaptureRead(cap_queue).frame)
    /\ stats' = Measured(stats)
    /\ pthreads' = [pthreads EXCEPT ![g] = Thread("test", 0)]
    /\ UNCHANGED <<cap_running, dropped_frames, cb_pc, cb_data, cb_n, enqueued>>
    /\ UNCHANGED <<out_running, underflow_count, outdata, out_calls, last_rendered>>
    /\ UNCHANGED <<lifeWorkerFrame, mthreads>>

\* except queue.Empty: continue
ProcTimeout(g) ==
    /\ g \in 1..Len(pthreads)
    /\ pthreads[g].pc = "read"
    /\ cap_queue = <<>>
    /\ pthreads[g].wait = 0
    /\ pthreads' = [pthreads EXCEPT ![g] = Thread("test", 0)]
    /\ UNCHANGED <<lifeWorkerFrame, capVars, outVars, mthreads, stats>>

\* _monitor_loop of thread g: the loop test
MonTest(g) ==
    /\ g \in 1..Len(mthreads)
    /\ mthreads[g].pc = "test"
    /\ mthreads' = [mthreads EXCEPT ![g] = IF LoopContinues(stop_event)
                                           THEN Thread("sleep", MONITOR_SLEEP)
                                           ELSE Thread("dead", 0)]
    /\ UNCHANGED <<lifeWorkerFrame, capVars, outVars, pthreads, stats>>

\* time.sleep(1.0) is over: the stats are sampled
MonSample(g) ==
    /\ g \in 1..Len(mthreads)
    /\ mthreads[g].pc = "sleep"
    /\ mthreads[g].wait = 0
    /\ mthreads' = [mthreads EXCEPT ![g] = Thread("test", 0)]
    /\ stats' = Sampled(stats)
    /\ UNCHANGED <<lifeWorkerFrame, capVars, outVars, pthreads>>

\* a thread in a timed wait that has not expired and cannot end otherwise
ProcWaits(th) == th.pc = "read" /\ th.wait > 0 /\ cap_queue = <<>>
MonWaits(th) == th.pc = "sleep" /\ th.wait > 0
CtlWaits ==
    \/ ctl_pc = "join_process" /\ ctl_wait > 0 /\ HasLive(pthreads)
    \/ ctl_pc = "join_monitor" /\ ctl_wait > 0 /\ HasLive(mthreads)

Elapse(th) == IF th.wait > 0 THEN [th EXCEPT !.wait = @ - 1] ELSE th
RECURSIVE ElapseAll(_)
ElapseAll(ths) == IF ths = <<>> THEN <<>> ELSE <<Elapse(Head(ths))>> \o ElapseAll(Tail(ths))

\* 0.5 s passes: every thread is idle, ended, or in a wait with time left
Tick ==
    /\ ctl_pc = "idle" \/ CtlWaits
    /\ \A g \in 1..Len(pthreads) : ~Alive(pthreads[g]) \/ ProcWaits(pthreads[g])
    /\ \A g \in 1..Len(mthreads) : ~Alive(mthreads[g]) \/ MonWaits(mthreads[g])
    /\ \/ CtlWaits
       \/ \E g \in 1..Len(pthreads) : Alive(pthreads[g])
       \/ \E g \in 1..Len(mthreads) : Alive(mthreads[g])
    /\ ctl_wait' = IF ctl_wait > 0 THEN ctl_wait - 1 ELSE 0
    /\ pthreads' = ElapseAll(pthreads)
    /\ mthreads' = ElapseAll(mthreads)
    /\ UNCHANGED <<eng_running, stop_event, cap_stream, out_stream, ctl_pc, ctl_err, ctl_last,
                   ctl_calls, stats, run_base>>
    /\ UNCHANGED <<cfg, lim, capVars, outVars, writeVars, h_n, paramVars, workerVars,
                   slotVars, noiseVars, bufVars, dspVars, fxVars, moreVars>>

\* no process() call yet
NoCall == [stage |-> "none", n |-> 0, factor |-> 0, path |-> "none", len |-> 0]

\* no EffectsChain.process call yet
NoResult == [call |-> 0, on |-> TRUE, enabled |-> {}, ret |-> "none", backend |-> "none"]

\* EffectsChain.__init__: enabled, every setting a number, the board built
\* (empty) when the native library is there
ChainInit ==
    /\ fx_on = TRUE
    /\ fx_none = {}
    /\ fx_board = IF pedalboard THEN <<{}>> ELSE <<>>
    /\ fx_res = NoResult
    /\ fx_calls = 0

(***************************************************************************)
(* EffectsChain (core/effects_chain.py)                                    *)
(***************************************************************************)
\* three of the five entries of EffectsChain.params
ChainEffects == {"distortion", "reverb", "chorus"}

\* the effects _process_mock computes from their numeric setting
\* (drive_db, wet_level)
MockEffects == {"distortion", "reverb"}

\* everything but the parameters and the chain
fxFrame ==
    <<cfg, lim, capVars, outVars, writeVars, h_n, workerVars, slotVars, noiseVars,
      lifeVars, bufVars, dspVars, moreVars>>

\* what process() found and what it did
Res(ret, backend) == [ret |-> ret, backend |-> backend]

AnyEnabled_Always(enabled) == TRUE

\* any(e["enabled"] for e in self.params.values())
AnyEnabled(enabled) == enabled # {}

\* Pedalboard(effects) with the plugins built from the settings: a plugin
\* given None in place of a number is the library's to accept or to refuse
BoardBuilds(enabled, none) ==
    IF enabled \cap none = {} THEN {"built"} ELSE {"built", "raised"}

\* _update_board: nothing without the library; else the board is rebuilt from
\* the enabled effects, or left as it was when a constructor raises
UpdateBoard(enabled, none) ==
    IF ~pedalboard
    THEN fx_board' = fx_board
    ELSE \E o \in BoardBuilds(enabled, none) :
            fx_board' = IF o = "built" THEN <<enabled>> ELSE fx_board

\* the truth value of self.board: None is false, a board with plugins is
\* true, an empty board is the library's choice
BoardTruth(board) ==
    IF board = <<>> THEN {FALSE}
    ELSE IF board[1] = {} THEN BOOLEAN
    ELSE {TRUE}

\* the try block: the processed audio, or the except branch's return of
\* audio (the float32 copy, or the input when astype itself raised)
BoardOutcomes == {Res("new", "board"), Res("copy", "board"), Res("input", "board")}

\* _process_mock: a copy worked on; arithmetic on a None setting raises
MockOutcome(enabled, none) ==
    IF enabled \cap none \cap MockEffects # {}
    THEN Res("raised", "mock")
    ELSE Res("new", "mock")

\* EffectsChain.process as a function of the chain's state
ProcessResults(on, enabled, none, native, board) ==
    IF ~on THEN {Res("input", "none")}
    ELSE IF ~AnyEnabled(enabled) THEN {Res("input", "none")}
    ELSE UNION { IF native /\ t THEN BoardOutcomes ELSE {MockOutcome(enabled, none)} :
                 t \in BoardTruth(board) }

\* chain.enabled = value
ChainEnable ==
    /\ fx_calls < lim.fxcalls
    /\ fx_calls' = fx_calls + 1
    /\ \E value \in BOOLEAN : fx_on' = value
    /\ UNCHANGED <<fx_none, fx_board, fx_res>>
    /\ UNCHANGED paramVars
    /\ UNCHANGED fxFrame

\* update_params(effect_name, enabled=value)
ChainUpdateEnabled ==
    /\ fx_calls < lim.fxcalls
    /\ fx_calls' = fx_calls + 1
    /\ \E e \in ChainEffects : \E value \in BOOLEAN :
          LET enabled == IF value THEN fx_enabled \cup {e} ELSE fx_enabled \ {e}
          IN  /\ fx_enabled' = enabled
              /\ UpdateBoard(enabled, fx_none)
    /\ UNCHANGED <<fx_on, fx_none, fx_res>>
    /\ UNCHANGED <<params, pedalboard, upd_n>>
    /\ UNCHANGED fxFrame

\* update_params(effect_name, setting=value): a number, or None as a preset
\* file can hold it
ChainUpdateSetting ==
    /\ fx_calls < lim.fxcalls
    /\ fx_calls' = fx_calls + 1
    /\ \E e \in ChainEffects : \E isNone \in BOOLEAN :
          LET none == IF isNone THEN fx_none \cup {e} ELSE fx_none \ {e}
          IN  /\ fx_none' = none
              /\ UpdateBoard(fx_enabled, none)
    /\ UNCHANGED <<fx_on, fx_res>>
    /\ UNCHANGED paramVars
    /\ UNCHANGED fxFrame

\* process(audio)
ChainProcess ==
    /\ fx_calls < lim.fxcalls
    /\ fx_calls' = fx_calls + 1
    /\ \E r \in ProcessResults(fx_on, fx_enabled, fx_none, pedalboard, fx_board) :
          fx_res' = [call |-> fx_calls + 1, on |-> fx_on, enabled |-> fx_enabled,
                     ret |-> r.ret, backend |-> r.backend]
    /\ UNCHANGED <<fx_on, fx_none, fx_board>>
    /\ UNCHANGED paramVars
    /\ UNCHANGED fxFrame

(***************************************************************************)
(* VoiceChangerEngine.update_params (core/engine.py), with the chain's     *)
(* update_params it calls                                                  *)
(***************************************************************************)
\* EffectsChain.params as __init__ leaves it (the numbers in hundredths)
EffectDefaults ==
    [reverb     |-> [enabled |-> FALSE, room_size |-> Num(50), wet_level |-> Num(30)],
     chorus     |-> [enabled |-> FALSE, rate_hz |-> Num(100), depth |-> Num(50)],
     distortion |-> [enabled |-> FALSE, drive_db |-> Num(0)],
     compressor |-> [enabled |-> FALSE, threshold_db |-> Num(-2000), ratio |-> Num(400)],
     delay      |-> [enabled |-> FALSE, time |-> Num(30), feedback |-> Num(50)]]

\* the names update_params is called with, as param.split(":") sees them
RouteNames ==
    {<<"pitch_shift">>, <<"formant_ratio">>, <<"bypass">>, <<"volume">>,
     <<"gain">>, <<"effect">>, <<"pitch_shift", "x">>,
     <<"effect", "reverb">>,
     <<"effect", "reverb", "room_size">>, <<"effect", "reverb", "enabled">>,
     <<"effect", "reverb", "mix">>,
     <<"effect", "distortion", "drive_db">>, <<"effect", "distortion", "enabled">>,
     <<"effect", "flanger", "enabled">>, <<"effect", "flanger", "depth">>,
     <<"effect", "reverb", "effect_name">>,
     <<"effects", "reverb", "enabled">>,
     <<"effect", "reverb", "enabled", "now">>,
     <<"effect", "reverb", "room_size", "now">>}

\* no route: the call changes nothing
NoRoute == [kind |-> "none", e |-> "", f |-> ""]

\* the branch of VoiceChangerEngine.update_params a name takes
Route(parts) ==
    IF Len(parts) = 1 /\ parts[1] \in DOMAIN params
    THEN [kind |-> "engine", e |-> "", f |-> parts[1]]
    ELSE IF Len(parts) >= 2 /\ parts[1] = "effect"
         THEN IF Len(parts) = 3
              THEN [kind |-> "effect", e |-> parts[2], f |-> parts[3]]
              ELSE IF Len(parts) = 4 /\ parts[3] = "enabled"
                   THEN [kind |-> "effect", e |-> parts[2], f |-> "enabled"]
                   ELSE NoRoute
         ELSE NoRoute

\* the values a name is updated with: flags for the flags, a number or None
\* for the rest
RouteValues(parts) ==
    IF Route(parts).f \in {"enabled", "bypass"} THEN BOOLEAN ELSE {Num(80), None}

\* update_params(parts[1], **{f: value}): a keyword that names a positional
\* parameter of the method is a TypeError at the call
KeywordClash(f) == f \in {"self", "effect_name"}

\* dict.update({f: value})
Merge(d, f, value) == [k \in DOMAIN d \cup {f} |-> IF k = f THEN value ELSE d[k]]

\* the effects whose enabled flag is set / that hold a None setting
EnabledIn(fp) == {e \in DOMAIN fp : fp[e].enabled}
NoneIn(fp) == {e \in DOMAIN fp : \E k \in DOMAIN fp[e] \ {"enabled"} : fp[e][k] = None}

\* a plugin of the board: its class and the keyword arguments it was built
\* with
Plugin(class, args) == [class |-> class, args |-> args]
Arg(key, val) == [key |-> key, val |-> val]

\* the effects list of _update_board: one plugin for each enabled effect,
\* in the order of the if statements
BuildChain(fp) ==
    (IF fp.distortion.enabled
     THEN <<Plugin("Distortion", <<Arg("drive_db", fp.distortion.drive_db)>>)>>
     ELSE <<>>)
    \o (IF fp.chorus.enabled
        THEN <<Plugin("Chorus", <<Arg("rate_hz", fp.chorus.rate_hz),
                                  Arg("depth", fp.chorus.depth)>>)>>
        ELSE <<>>)
    \o (IF fp.reverb.enabled
        THEN <<Plugin("Reverb", <<Arg("room_size", fp.reverb.room_size),
                                  Arg("wet_level", fp.reverb.wet_level)>>)>>
        ELSE <<>>)
    \o (IF fp.delay.enabled
        THEN <<Plugin("Delay", <<Arg("delay_seconds", fp.delay.time),
                                 Arg("feedback", fp.delay.feedback)>>)>>
        ELSE <<>>)
    \o (IF fp.compressor.enabled
        THEN <<Plugin("Compressor", <<Arg("threshold_db", fp.compressor.threshold_db),
                                      Arg("ratio", fp.compressor.ratio)>>)>>
        ELSE <<>>)

\* _update_board with the settings fp: nothing without the library; else
\* self.board = Pedalboard(effects), or the board as it was when one of the
\* constructors raised
Rebuild(fp) ==
    IF ~pedalboard
    THEN fx_board' = fx_board /\ fx_chain' = fx_chain
    ELSE \E o \in BoardBuilds(EnabledIn(fp), NoneIn(fp)) :
            IF o = "built"
            THEN fx_board' = <<EnabledIn(fp)>> /\ fx_chain' = BuildChain(fp)
            ELSE fx_board' = fx_board /\ fx_chain' = fx_chain

\* how an update_params call ended
Routed(parts, value, end) == [name |-> parts, value |-> value, end |-> end]

\* VoiceChangerEngine.update_params(param, value), for the names of a set: it
\* takes no lock and waits for nothing
EngineUpdateOf(names) ==
    /\ rt_calls < lim.rcalls
    /\ rt_calls' = rt_calls + 1
    /\ \E parts \in names : \E value \in RouteValues(parts) :
          LET r == Route(parts)
          IN  CASE r.kind = "engine" ->
                     /\ params' = [params EXCEPT ![r.f] = value]
                     /\ rt_last' = Routed(parts, value, "stored")
                     /\ rt_at' = [rt_at EXCEPT ![r.f] = IF wk_pc = "read" THEN 0 ELSE wk_in.id]
                     /\ UNCHANGED <<fx_params, fx_enabled, fx_none, fx_board, fx_chain>>
                [] r.kind = "effect" /\ KeywordClash(r.f) ->
                     /\ rt_last' = Routed(parts, value, "raised")
                     /\ UNCHANGED <<params, fx_params, fx_enabled, fx_none, fx_board, fx_chain,
                                     rt_at>>
                [] r.kind = "effect" /\ ~KeywordClash(r.f) /\ r.e \in DOMAIN fx_params ->
                     LET fp == [fx_params EXCEPT ![r.e] = Merge(@, r.f, value)]
                     IN  /\ fx_params' = fp
                         /\ fx_enabled' = EnabledIn(fp)
                         /\ fx_none' = NoneIn(fp)
                         /\ Rebuild(fp)
                         /\ rt_last' = Routed(parts, value, "rebuilt")
                         /\ UNCHANGED <<params, rt_at>>
                [] OTHER ->
                     /\ rt_last' = Routed(parts, value, "ignored")
                     /\ UNCHANGED <<params, fx_params, fx_enabled, fx_none, fx_board, fx_chain,
                                     rt_at>>
    /\ UNCHANGED <<pedalboard, upd_n, fx_on, fx_res, fx_calls>>
    /\ UNCHANGED <<cfg, lim, capVars, outVars, writeVars, h_n, workerVars, slotVars, noiseVars,
                   lifeVars, bufVars, dspVars, eqVars, clipVars, lastVars>>

EngineUpdate == EngineUpdateOf(RouteNames)

\* the four engine parameters
EngineNames == {<<"pitch_shift">>, <<"formant_ratio">>, <<"bypass">>, <<"volume">>}

\* update_params called from the control path while the engine runs
EngineUpdateLive == EngineUpdateOf(EngineNames)

\* VoiceChangerEngine.__init__: no update_params call yet
RouteInit ==
    /\ fx_params = EffectDefaults
    /\ fx_chain = <<>>
    /\ rt_last = Routed(<<>>, FALSE, "none")
    /\ rt_calls = 0
    /\ rt_at = [pitch_shift |-> 0, formant_ratio |-> 0, bypass |-> 0, volume |-> 0]

(***************************************************************************)
(* ErrorTracker.log_error (utils/error_handler.py)                         *)
(***************************************************************************)
\* if now - self.last_error_time.get(source, 0) > 60
ResetAfter == 60
\* self.error_counts[source] <= 3 or self.error_counts[source] % 10 == 0
LogFirst == 3
LogEvery == 10

\* the threads that report errors, and the sources they report: thread 1
\* is the processing thread (engine.py:195), thread 2 reports any source
TrackThreads == {1, 2}
TrackSources == {"ProcessingLoop", "MonitorLoop"}
TrackReports(t) == IF t = 1 THEN {"ProcessingLoop"} ELSE TrackSources

\* the clock when the tracker is created, and the step it is advanced by:
\* two steps are a pause of exactly ResetAfter seconds
TrackStart == 100 * 1000
TrackTick == 3 * 10

\* dict.get(key, default)
Get(d, key, default) == IF key \in DOMAIN d THEN d[key] ELSE default

\* a lock that lets every thread in
LockFree_Always(holder) == TRUE

\* with self._lock: the lock can be taken when no thread holds it
LockFree(holder) == holder = 0

\* the if of line 69
ShouldLog(n) == n <= LogFirst \/ n % LogEvery = 0

\* how a log_error call ended
Tracked(source, count, logged) == [source |-> source, count |-> count, logged |-> logged]

trackFrame ==
    <<cfg, lim, capVars, outVars, writeVars, h_n, paramVars, workerVars, slotVars, noiseVars,
      lifeVars, bufVars, dspVars, fxVars, routeVars, eqVars, clipVars, tailVars, enhVars>>

\* a thread calls log_error(source, message)
LogErrorCall(t) ==
    /\ et_pc[t] = "idle"
    /\ et_calls < lim.ecalls
    /\ et_calls' = et_calls + 1
    /\ \E source \in TrackReports(t) : et_src' = [et_src EXCEPT ![t] = source]
    /\ et_pc' = [et_pc EXCEPT ![t] = "acquire"]
    /\ UNCHANGED <<error_counts, last_error_time, et_lock, et_at, et_tmp, et_now, et_last,
                   et_ticks, et_nth, et_when, et_mine>>
    /\ UNCHANGED trackFrame

\* with self._lock: entry
LogErrorAcquire(t) ==
    /\ et_pc[t] = "acquire"
    /\ LockFree(et_lock)
    /\ et_lock' = t
    /\ et_pc' = [et_pc EXCEPT ![t] = "stamp"]
    /\ UNCHANGED <<error_counts, last_error_time, et_src, et_at, et_tmp, et_now, et_last,
                   et_calls, et_ticks, et_nth, et_when, et_mine>>
    /\ UNCHANGED trackFrame

\* now = time.time(); the count is set to 0 when the source's last error is
\* more than a minute old. The error is the source's first after a pause of
\* over a minute, or the next of the run it belongs to
LogErrorStamp(t) ==
    LET source == et_src[t]
        nth == IF et_when[source] < 0 \/ et_now - et_when[source] > ResetAfter
               THEN 1
               ELSE et_nth[source] + 1
    IN  /\ et_pc[t] = "stamp"
        /\ et_at' = [et_at EXCEPT ![t] = et_now]
        /\ error_counts' = IF et_now - Get(last_error_time, source, 0) > ResetAfter
                           THEN Merge(error_counts, source, 0)
                           ELSE error_counts
        /\ et_nth' = [et_nth EXCEPT ![source] = nth]
        /\ et_when' = [et_when EXCEPT ![source] = et_now]
        /\ et_mine' = [et_mine EXCEPT ![t] = nth]
        /\ et_pc' = [et_pc EXCEPT ![t] = "load"]
        /\ UNCHANGED <<last_error_time, et_lock, et_src, et_tmp, et_now, et_last, et_calls,
                       et_ticks>>
        /\ UNCHANGED trackFrame

\* self.error_counts.get(source, 0) + 1: the load
LogErrorLoad(t) ==
    /\ et_pc[t] = "load"
    /\ et_tmp' = [et_tmp EXCEPT ![t] = Get(error_counts, et_src[t], 0)]
    /\ et_pc' = [et_pc EXCEPT ![t] = "store"]
    /\ UNCHANGED <<error_counts, last_error_time, et_lock, et_src, et_at, et_now, et_last,
                   et_calls, et_ticks, et_nth, et_when, et_mine>>
    /\ UNCHANGED trackFrame

\* self.error_counts[source] = ... + 1; self.last_error_time[source] = now
LogErrorStore(t) ==
    /\ et_pc[t] = "store"
    /\ error_counts' = Merge(error_counts, et_src[t], et_tmp[t] + 1)
    /\ last_error_time' = Merge(last_error_time, et_src[t], et_at[t])
    /\ et_pc' = [et_pc EXCEPT ![t] = "log"]
    /\ UNCHANGED <<et_lock, et_src, et_at, et_tmp, et_now, et_last, et_calls, et_ticks,
                   et_nth, et_when, et_mine>>
    /\ UNCHANGED trackFrame

\* the if of line 69 with the count as it is now, logger.log, the end of
\* the with block and the return
LogErrorLog(t) ==
    LET count == error_counts[et_src[t]]
    IN  /\ et_pc[t] = "log"
        /\ et_last' = Tracked(et_src[t], count, ShouldLog(count))
        /\ et_lock' = 0
        /\ et_pc' = [et_pc EXCEPT ![t] = "idle"]
        /\ et_src' = [et_src EXCEPT ![t] = ""]
        /\ et_at' = [et_at EXCEPT ![t] = 0]
        /\ et_tmp' = [et_tmp EXCEPT ![t] = 0]
        /\ et_mine' = [et_mine EXCEPT ![t] = 0]
        /\ UNCHANGED <<error_counts, last_error_time, et_now, et_calls, et_ticks, et_nth,
                       et_when>>
        /\ UNCHANGED trackFrame

\* time passes
TrackClock ==
    /\ et_ticks < lim.eticks
    /\ et_ticks' = et_ticks + 1
    /\ et_now' = et_now + TrackTick
    /\ UNCHANGED <<error_counts, last_error_time, et_lock, et_pc, et_src, et_at, et_tmp,
                   et_last, et_calls, et_nth, et_when, et_mine>>
    /\ UNCHANGED trackFrame

\* ErrorTracker.__init__
TrackInit ==
    /\ error_counts = <<>>
    /\ last_error_time = <<>>
    /\ et_lock = 0
    /\ et_pc = [t \in TrackThreads |-> "idle"]
    /\ et_src = [t \in TrackThreads |-> ""]
    /\ et_at = [t \in TrackThreads |-> 0]
    /\ et_tmp = [t \in TrackThreads |-> 0]
    /\ et_now = TrackStart
    /\ et_last = Tracked("", 0, FALSE)
    /\ et_calls = 0
    /\ et_ticks = 0
    /\ et_nth = [source \in TrackSources |-> 0]
    /\ et_when = [source \in TrackSources |-> -1]
    /\ et_mine = [t \in TrackThreads |-> 0]

(***************************************************************************)
(* VoiceBeautifier.eq (core/voice_beautifier.py)                           *)
(***************************************************************************)
\* the gains in dB: within the sliders' range, and one whose amplitude
\* 10 ** (gain / 40) is beyond a float
EqGains == {-5, 0, 3, 20000}

\* the sample rates
EqRates == {0, 44100, 48000}

\* _design_shelf_filter raises: 10 ** (gain / 40) overflows a float for an
\* exponent above 308, and freq / sr divides by zero
DesignRaises(sr, gain) == sr = 0 \/ gain \div 40 > 308

\* the (b, a) pair _design_shelf_filter returns, named by what it was
\* designed for
Shelf(type, sr, gain) == [type |-> type, sr |-> sr, gain |-> gain]

\* an eq() call of the record eq_last
EqDone(key, recomputed, raised, applied) ==
    [key |-> key, recomputed |-> recomputed, raised |-> raised, applied |-> applied]

\* the body of eq(audio, sr, warmth, presence)
EqWith(warmth, presence, sr) ==
    LET cache_key == <<warmth, presence, sr>>
        low == Shelf("low_shelf", sr, warmth)
        high == Shelf("high_shelf", sr, presence)
    IN  IF eq_key = <<cache_key>>
        THEN /\ eq_last' = EqDone(cache_key, FALSE, FALSE, eq_warmth \o eq_presence)
             /\ UNCHANGED <<eq_warmth, eq_presence, eq_key>>
        ELSE IF DesignRaises(sr, warmth)
        THEN /\ eq_last' = EqDone(cache_key, FALSE, TRUE, <<>>)
             /\ UNCHANGED <<eq_warmth, eq_presence, eq_key>>
        ELSE IF DesignRaises(sr, presence)
        THEN /\ eq_warmth' = <<low>>
             /\ eq_last' = EqDone(cache_key, FALSE, TRUE, <<>>)
             /\ UNCHANGED <<eq_presence, eq_key>>
        ELSE /\ eq_warmth' = <<low>>
             /\ eq_presence' = <<high>>
             /\ eq_key' = <<cache_key>>
             /\ eq_last' = EqDone(cache_key, TRUE, FALSE, <<low, high>>)

\* VoiceBeautifier.eq(audio, sr, warmth, presence)
EqCall ==
    /\ eq_calls < lim.eqcalls
    /\ eq_calls' = eq_calls + 1
    /\ \E warmth \in EqGains, presence \in EqGains, sr \in EqRates :
          EqWith(warmth, presence, sr)
    /\ UNCHANGED <<cfg, lim, capVars, outVars, writeVars, h_n, paramVars, workerVars, slotVars,
                   noiseVars, lifeVars, bufVars, dspVars, fxVars, routeVars, clipVars, lastVars>>

\* VoiceBeautifier.__init__: nothing cached, no call yet
EqInit ==
    /\ eq_warmth = <<>>
    /\ eq_presence = <<>>
    /\ eq_key = <<>>
    /\ eq_last = EqDone(<<>>, FALSE, FALSE, <<>>)
    /\ eq_calls = 0

(***************************************************************************)
(* VoiceBeautifier.process (core/voice_beautifier.py) and the controls of  *)
(* the advanced tab (ui/tabs/advanced_tab.py)                              *)
(***************************************************************************)
\* BeautifySettings: the de-esser strength in hundredths, the two shelf
\* gains in dB
Settings(strength, warmth, presence, enabled) ==
    [deesser_strength |-> strength, warmth |-> warmth, presence |-> presence,
     enabled |-> enabled]

\* a clip that leaves every value as it is
NpClip_Same(x, lo, hi) == x

\* np.clip(x, lo, hi)
NpClip(x, lo, hi) == IF x < lo THEN lo ELSE IF x > hi THEN hi ELSE x

\* BeautifySettings.validate
Validate(st) ==
    [st EXCEPT !.deesser_strength = NpClip(@, 0, 100),
               !.warmth = NpClip(@, -10, 10),
               !.presence = NpClip(@, -10, 10)]

\* the values the three sliders deliver: the ends of their ranges
\* (from_=0.0, to=1.0 and from_=-10.0, to=10.0)
SliderStrengths == {0, 100}
SliderGains == {-10, 10}

\* the settings objects passed to process(): within the ranges and beyond
\* them on either side
VbOverrides ==
    {Settings(lv[1], lv[2], lv[3], e) : lv \in {<<250, -15, 15>>, <<-50, 3, 0>>},
                                        e \in BOOLEAN}

\* how a process() call ended: the settings argument, "input" when the
\* array passed in came back and "processed" when another did, and the
\* stages that ran
VbDone(over, ret, deess, eq) == [over |-> over, ret |-> ret, deess |-> deess, eq |-> eq]

enhFrame ==
    <<cfg, lim, capVars, outVars, writeVars, h_n, paramVars, workerVars, slotVars, noiseVars,
      lifeVars, bufVars, dspVars, fxVars, routeVars, clipVars, tailVars, trackVars>>

\* VoiceBeautifier.enable
VbEnable ==
    /\ vb_settings' = [vb_settings EXCEPT !.enabled = TRUE]
    /\ vb_master' = "on"
    /\ UNCHANGED <<vb_bypass, vb_pc, vb_over, vb_last, vb_calls, eqVars>>
    /\ UNCHANGED enhFrame

\* VoiceBeautifier.disable
VbDisable ==
    /\ vb_settings' = [vb_settings EXCEPT !.enabled = FALSE]
    /\ vb_master' = "off"
    /\ UNCHANGED <<vb_bypass, vb_pc, vb_over, vb_last, vb_calls, eqVars>>
    /\ UNCHANGED enhFrame

\* VoiceBeautifier.set_bypass(bypass), as AdvancedTab._toggle_beautify calls it
VbSetBypass ==
    /\ \E bypass \in BOOLEAN : vb_bypass' = bypass
    /\ UNCHANGED <<vb_settings, vb_master, vb_pc, vb_over, vb_last, vb_calls, eqVars>>
    /\ UNCHANGED enhFrame

\* AdvancedTab._set_deesser, _set_warmth and _set_presence: the slider's
\* value is stored in the settings object as it is
VbSlider ==
    /\ \/ \E value \in SliderStrengths :
             vb_settings' = [vb_settings EXCEPT !.deesser_strength = value]
       \/ \E value \in SliderGains : vb_settings' = [vb_settings EXCEPT !.warmth = value]
       \/ \E value \in SliderGains : vb_settings' = [vb_settings EXCEPT !.presence = value]
    /\ UNCHANGED <<vb_bypass, vb_master, vb_pc, vb_over, vb_last, vb_calls, eqVars>>
    /\ UNCHANGED enhFrame

\* process(audio, sr, settings) up to the test of the two switches: settings
\* given are validated and replace self.settings; the call returns audio
\* when bypassed or not enabled
VbProcessCall ==
    /\ vb_pc = "idle"
    /\ vb_calls < lim.vcalls
    /\ vb_calls' = vb_calls + 1
    /\ \E over \in {<<>>} \cup {<<o>> : o \in VbOverrides} :
          LET st == IF over # <<>> THEN Validate(over[1]) ELSE vb_settings
          IN  /\ vb_settings' = st
              /\ IF vb_bypass \/ ~st.enabled
                 THEN /\ vb_last' = VbDone(over, "input", FALSE, FALSE)
                      /\ UNCHANGED <<vb_pc, vb_over>>
                 ELSE /\ vb_pc' = "filter"
                      /\ vb_over' = over
                      /\ UNCHANGED vb_last
    /\ UNCHANGED <<vb_bypass, vb_master, eqVars>>
    /\ UNCHANGED enhFrame

\* the try block of process(): the de-esser when the strength is above 0.01,
\* the shelves when a gain is above 0.1 dB either way, each with the
\* settings as they are now; an exception of eq() returns the audio as the
\* de-esser left it
VbProcessFilter ==
    LET st == vb_settings
        deess == st.deesser_strength > 1
        eq == st.warmth # 0 \/ st.presence # 0
    IN  /\ vb_pc = "filter"
        /\ IF eq
           THEN /\ EqWith(st.warmth, st.presence, SAMPLE_RATE)
                /\ eq_calls' = eq_calls + 1
           ELSE UNCHANGED eqVars
        /\ vb_last' = VbDone(vb_over,
                             IF deess \/ (eq /\ ~eq_last'.raised) THEN "processed" ELSE "input",
                             deess, eq)
        /\ vb_pc' = "idle"
        /\ vb_over' = <<>>
        /\ UNCHANGED <<vb_settings, vb_bypass, vb_master, vb_calls>>
        /\ UNCHANGED enhFrame

\* VoiceBeautifier() and the disable() of VoiceChangerEngine.__init__
EnhInit ==
    /\ vb_settings = Settings(50, 0, 0, FALSE)
    /\ vb_bypass = FALSE
    /\ vb_master = "off"
    /\ vb_pc = "idle"
    /\ vb_over = <<>>
    /\ vb_last = VbDone(<<>>, "input", FALSE, FALSE)
    /\ vb_calls = 0

(***************************************************************************)
(* The gain and the soft clip of AudioCapture._callback on blocks of every *)
(* level                                                                   *)
(***************************************************************************)
\* raw float32 samples in tenths: silence, half scale and full scale, of
\* either sign
ClipLevels == {-10, -5, 0, 5, 10}

\* the blocks the driver delivers: CHUNK_SIZE samples of up to three levels
ClipBlocks ==
    {Norm(<<[cnt |-> 1, val |-> a], [cnt |-> 1, val |-> b], [cnt |-> CHUNK_SIZE - 2, val |-> c]>>) :
        a \in ClipLevels, b \in ClipLevels, c \in ClipLevels}

\* data = indata.copy().flatten() * 10.0; data = np.tanh(data)
ClipCall ==
    /\ clip_calls < lim.ccalls
    /\ clip_calls' = clip_calls + 1
    /\ \E indata \in ClipBlocks :
          /\ clip_in' = indata
          /\ clip_out' = MapVal(MapVal(indata, Gain), TanhF32)
    /\ UNCHANGED <<cfg, lim, capVars, outVars, writeVars, h_n, paramVars, workerVars, slotVars,
                   noiseVars, lifeVars, bufVars, dspVars, fxVars, routeVars, eqVars, lastVars>>

\* no block yet
ClipInit ==
    /\ clip_in = <<>>
    /\ clip_out = <<>>
    /\ clip_calls = 0

\* AudioOutput.__init__
OutInit ==
    /\ out_queue = <<>>
    /\ underflow_count = 0
    /\ outdata = [data |-> <<>>, ops |-> <<>>]
    /\ out_calls = 0
    /\ last_rendered = 0
    /\ w_pc = "idle"
    /\ w_data = SilentFrame
    /\ w_drop = 0
    /\ w_before = <<>>
    /\ w_alone = TRUE
    /\ w_put = FALSE

\* AudioCapture.__init__
CapInit ==
    /\ cap_queue = <<>>
    /\ dropped_frames = 0
    /\ cb_pc = "idle"
    /\ cb_data = SilentFrame
    /\ cb_n = 0
    /\ enqueued = <<>>

\* the parameters start() can find: the defaults, or a pitch the pitch slider
\* set while the engine was stopped
StartParams == {DefaultParams, [DefaultParams EXCEPT !.pitch_shift = Num(5)]}

\* VoiceChangerEngine.__init__: the engine is stopped, no thread exists
Stopped ==
    /\ eng_running = FALSE
    /\ stop_event = FALSE
    /\ cap_stream = "none"
    /\ out_stream = "none"
    /\ ctl_pc = "idle"
    /\ ctl_wait = 0
    /\ ctl_err = <<>>
    /\ ctl_last = Outcome("none", "ok", <<>>)
    /\ ctl_calls = 0
    /\ pthreads = <<>>
    /\ mthreads = <<>>
    /\ stats = InitialStats
    /\ run_base = [cb |-> 0, oc |-> 0, pt |-> 0, mt |-> 0]

\* the state a successful start() leaves, both workers in their first wait
Started ==
    /\ eng_running = TRUE
    /\ stop_event = FALSE
    /\ cap_stream = "active"
    /\ out_stream = "active"
    /\ ctl_pc = "idle"
    /\ ctl_wait = 0
    /\ ctl_err = <<>>
    /\ ctl_last = Outcome("start", "ok", <<>>)
    /\ ctl_calls = 1
    /\ pthreads = <<Thread("read", READ_TIMEOUT)>>
    /\ mthreads = <<Thread("sleep", MONITOR_SLEEP)>>
    /\ stats = InitialStats
    /\ run_base = [cb |-> 0, oc |-> 0, pt |-> 0, mt |-> 0]

\* VoiceChangerEngine.__init__, the parameters and the life cycle apart
EngineParts ==
    /\ fx_enabled = {}
    /\ pedalboard \in BOOLEAN
    /\ ChainInit
    /\ RouteInit
    /\ EqInit
    /\ ClipInit
    /\ TrackInit
    /\ EnhInit
    /\ dsp_last = NoCall
    /\ dsp_calls = 0
    /\ upd_n = 0
    /\ wk_pc = "read"
    /\ wk_in = SilentFrame
    /\ wk_proc = SilentFrame
    /\ wk_byp = <<>>
    /\ wk_vol = <<>>
    /\ frame_count = 0
    /\ wk_wrote = <<>>
    /\ wk_timeouts = 0
    /\ wk_trace = <<>>
    /\ SlotInit

\* VoiceChangerEngine.__init__, the buffer manager with the configured fade
EngineInit ==
    /\ BufferInit(BufChunks, BufChunk, CROSSFADE_LENGTH)
    /\ TailInit(CROSSFADE_LENGTH)
    /\ EngineParts

\* AudioOutput() with out.running = True, as the tests set it up
SinkInit ==
    /\ cfg \in ScaledConfigs \cup {DefaultConfig}
    /\ lim = [NoLimits EXCEPT !.writes = SinkWrites, !.outcalls = SinkOutCalls]
    /\ CapInit
    /\ OutInit
    /\ cap_running = FALSE
    /\ out_running = TRUE
    /\ h_n = 0
    /\ EngineInit /\ EngineNcInit /\ Stopped
    /\ params = DefaultParams
    /\ pedalboard = TRUE

SinkNext ==
    \/ HarnessWrite
    \/ WriteCheck
    \/ WriteDrainTest
    \/ WriteDrainGet
    \/ WritePut
    \/ OutputCallback

SinkSpec == SinkInit /\ [][SinkNext]_vars

(***************************************************************************)
(* The capture source on its own, as in tests/test_device_logic.py: the    *)
(* device callback delivers blocks while a consumer thread reads.          *)
(***************************************************************************)
CaptureInit ==
    /\ cfg \in {[DefaultConfig EXCEPT !.MAX_INPUT_QUEUE = c] : c \in 1..CapCap}
    /\ lim = [NoLimits EXCEPT !.frames = CapFrames]
    /\ CapInit /\ OutInit /\ EngineInit /\ EngineNcInit /\ Stopped
    /\ params = DefaultParams
    /\ pedalboard = TRUE
    /\ cap_running = TRUE
    /\ out_running = FALSE
    /\ h_n = 0

CaptureNext ==
    \/ CaptureCallback
    \/ CaptureEvict
    \/ CaptureReput
    \/ ReaderRead

CaptureSpec == CaptureInit /\ [][CaptureNext]_vars

(***************************************************************************)
(* The running engine: both device streams open, the worker in its loop,   *)
(* the control path updating parameters.                                   *)
(***************************************************************************)
PipeInit ==
    /\ cfg = PipeConfig
    /\ lim = [NoLimits EXCEPT !.frames = PipeFrames, !.outcalls = PipeOutCalls,
                              !.updates = PipeUpdates]
    /\ CapInit /\ OutInit /\ EngineInit /\ EngineNcInit /\ Started
    /\ params \in StartParams
    /\ pedalboard = TRUE
    /\ cap_running = TRUE
    /\ out_running = TRUE
    /\ h_n = 0

PipeNext ==
    \/ CaptureCallback
    \/ CaptureEvict
    \/ CaptureReput
    \/ WorkerRead
    \/ WorkerTimeout
    \/ WorkerBypass
    \/ WorkerPitchTest
    \/ WorkerPitch
    \/ WorkerFormantTest
    \/ WorkerFormant
    \/ WorkerEffects
    \/ WorkerVolumeTest
    \/ WorkerVolume
    \/ WorkerWrite
    \/ WorkerExcept
    \/ WorkerWritten
    \/ WriteCheck
    \/ WriteDrainTest
    \/ WriteDrainGet
    \/ WritePut
    \/ OutputCallback
    \/ UpdateParam
    \/ UpdateEffect

PipeSpec == PipeInit /\ [][PipeNext]_vars

(***************************************************************************)
(* The voice slot manager called from several threads (the UI and the      *)
(* hot-key callbacks)                                                      *)
(***************************************************************************)
\* the audio path at rest
AudioIdle ==
    /\ cfg = DefaultConfig
    /\ CapInit /\ OutInit /\ EngineInit /\ Stopped
    /\ params = DefaultParams
    /\ pedalboard = TRUE
    /\ cap_running = FALSE
    /\ out_running = FALSE
    /\ h_n = 0

SlotSpecInit ==
    /\ AudioIdle /\ EngineNcInit
    /\ lim = [NoLimits EXCEPT !.switches = SlotCalls]

SlotNext ==
    \E t \in Threads :
        \/ SwitchCall(t)
        \/ SwitchTest(t)
        \/ SwitchDrain(t)
        \/ SwitchDrainGet(t)
        \/ SwitchPut(t)
        \/ SwitchAcquire(t)
        \/ SwitchBegin(t)
        \/ SwitchCrossfade(t)
        \/ SwitchSetCurrent(t)
        \/ SwitchFinally(t)
        \/ SwitchQueueCheck(t)
        \/ SwitchGet(t)
        \/ SwitchRelease(t)

SlotSpec == SlotSpecInit /\ [][SlotNext]_vars

\* a step of thread t inside switch_to: a thread that can go on does go on
SlotStep(t) ==
    \/ SwitchTest(t)
    \/ SwitchDrain(t)
    \/ SwitchDrainGet(t)
    \/ SwitchPut(t)
    \/ SwitchAcquire(t)
    \/ SwitchBegin(t)
    \/ SwitchCrossfade(t)
    \/ SwitchSetCurrent(t)
    \/ SwitchFinally(t)
    \/ SwitchQueueCheck(t)
    \/ SwitchGet(t)
    \/ SwitchRelease(t)

\* the interpreter schedules every runnable thread again and again; the
\* lock is handed to a waiter each time it is free (strong fairness)
SlotFair == \A t \in Threads : SF_vars(SlotStep(t))

SlotLive == SlotSpec /\ SlotFair

\* the slot manager with its two users: the interface thread, which
\* switches, and the audio thread, which applies the crossfade to each chunk
FadeSpecInit ==
    /\ AudioIdle /\ EngineNcInit
    /\ lim = [NoLimits EXCEPT !.switches = FadeSwitches, !.xcalls = FadeApplies]

\* switch_to has one caller in the program, the interface thread
\* (ui/tabs/advanced_tab.py:117): it never finds a switch in progress
FadeNext ==
    \/ SwitchCall(1)
    \/ SwitchTest(1)
    \/ SwitchAcquire(1)
    \/ SwitchBegin(1)
    \/ SwitchCrossfade(1)
    \/ SwitchSetCurrent(1)
    \/ SwitchFinally(1)
    \/ SwitchQueueCheck(1)
    \/ SwitchRelease(1)
    \/ ApplyCall
    \/ ApplyMeasure
    \/ ApplyBlend
    \/ ApplyStore

FadeSpec == FadeSpecInit /\ [][FadeNext]_vars


(***************************************************************************)
(* A noise canceller of its own, as in pythontests/test_noise_cancellation *)
(***************************************************************************)
NoiseSpecInit ==
    /\ AudioIdle
    /\ NcInit
    /\ lim = [NoLimits EXCEPT !.ncalls = NoiseCalls]

NoiseNext ==
    \/ NcEnable
    \/ NcDisable
    \/ NcSetIntensity
    \/ NcProcess

NoiseSpec == NoiseSpecInit /\ [][NoiseNext]_vars

(***************************************************************************)
(* Properties of the output sink                                           *)
(***************************************************************************)
(* The engine started and stopped by the control thread (the UI), the      *)
(* device invoking the callbacks of the open streams.                      *)
(***************************************************************************)
LifeInit ==
    /\ cfg = PipeConfig
    /\ CapInit /\ OutInit /\ EngineInit /\ EngineNcInit /\ Stopped
    /\ params = DefaultParams
    /\ pedalboard = TRUE
    /\ cap_running = FALSE
    /\ out_running = FALSE
    /\ h_n = 0
    /\ lim = [NoLimits EXCEPT !.calls = LifeCalls, !.frames = LifeFrames,
                              !.outcalls = LifeOutCalls]

\* the steps of the threads start() created
WorkerStep(g) ==
    \/ ProcTest(g)
    \/ ProcFrame(g)
    \/ ProcTimeout(g)
    \/ MonTest(g)
    \/ MonSample(g)

\* the steps inside start() and stop()
ControlStep ==
    \/ StartReset
    \/ StartCapture
    \/ StartOutput
    \/ StartProcessThread
    \/ StartMonitorThread
    \/ StartExcept
    \/ StopCapture
    \/ StopOutput
    \/ JoinProcess
    \/ StopTestMonitor
    \/ JoinMonitor
    \/ StopReturn
    \/ StartRaise

LifeNext ==
    \/ StartCall
    \/ StopCall
    \/ ControlStep
    \/ \E g \in 1..LifeCalls : WorkerStep(g)
    \/ DeviceCapture
    \/ CaptureEvict
    \/ CaptureReput
    \/ DeviceOutput
    \/ Tick

LifeSpec == LifeInit /\ [][LifeNext]_vars

\* a capture callback that was entered goes on to its end
CallbackStep == CaptureEvict \/ CaptureReput

\* every thread that can take a step takes it, and time passes
LifeFair ==
    /\ WF_vars(ControlStep)
    /\ WF_vars(CallbackStep)
    /\ \A g \in 1..LifeCalls : WF_vars(WorkerStep(g))
    /\ WF_vars(Tick)

LifeLive == LifeSpec /\ LifeFair

(***************************************************************************)
(* A circular buffer of its own, as in tests/test_core_logic.py            *)
(***************************************************************************)
BufSpecInit ==
    /\ AudioIdle /\ EngineNcInit
    /\ lim = [NoLimits EXCEPT !.bwrites = BufWrites]

BufNext ==
    \/ BufferWrite
    \/ BufferClearCall

BufSpec == BufSpecInit /\ [][BufNext]_vars

(***************************************************************************)
(* The crossfade of the circular buffer on its own: chunks are handed to   *)
(* apply_crossfade one after the other, clear() is called in between. The  *)
(* fade is TailFade samples long in place of CROSSFADE_LENGTH.             *)
(***************************************************************************)
TailSpecInit ==
    /\ cfg = DefaultConfig
    /\ CapInit /\ OutInit /\ Stopped /\ EngineNcInit
    /\ BufferInit(BufChunks, BufChunk, TailFade)
    /\ TailInit(TailFade)
    /\ EngineParts
    /\ params = DefaultParams
    /\ pedalboard = TRUE
    /\ cap_running = FALSE
    /\ out_running = FALSE
    /\ h_n = 0
    /\ lim = [NoLimits EXCEPT !.tcalls = TailCalls]

TailNext ==
    \/ CrossfadeApply
    \/ CrossfadeClear

TailSpec == TailSpecInit /\ [][TailNext]_vars

(***************************************************************************)
(* The error tracker on its own: two threads report errors of two sources  *)
(* while the clock advances.                                               *)
(***************************************************************************)
TrackSpecInit ==
    /\ AudioIdle /\ EngineNcInit
    /\ lim = [NoLimits EXCEPT !.ecalls = TrackCalls, !.eticks = TrackTicks]

TrackNext ==
    \/ \E t \in TrackThreads :
          \/ LogErrorCall(t) \/ LogErrorAcquire(t) \/ LogErrorStamp(t)
          \/ LogErrorLoad(t) \/ LogErrorStore(t) \/ LogErrorLog(t)
    \/ TrackClock

TrackSpec == TrackSpecInit /\ [][TrackNext]_vars

(***************************************************************************)
(* The beautifier on its own: process() is called with and without         *)
(* settings while the advanced tab moves its switches and sliders.         *)
(***************************************************************************)
EnhSpecInit ==
    /\ AudioIdle /\ EngineNcInit
    /\ lim = [NoLimits EXCEPT !.vcalls = VbCalls]

EnhNext ==
    \/ VbEnable \/ VbDisable \/ VbSetBypass \/ VbSlider
    \/ VbProcessCall \/ VbProcessFilter

EnhSpec == EnhSpecInit /\ [][EnhNext]_vars


(***************************************************************************)
(* The pitch and the formant processor called on their own, as in          *)
(* tests/test_core_logic.py                                                *)
(***************************************************************************)
DspSpecInit ==
    /\ AudioIdle /\ EngineNcInit
    /\ lim = [NoLimits EXCEPT !.dcalls = DspCalls]

DspNext ==
    \/ PitchCall
    \/ FormantCall

DspSpec == DspSpecInit /\ [][DspNext]_vars

(***************************************************************************)
(* The effects chain called on its own, as in tests/test_core_logic.py,    *)
(* on either backend                                                       *)
(***************************************************************************)
FxSpecInit ==
    /\ cfg = DefaultConfig
    /\ CapInit /\ OutInit /\ EngineInit /\ Stopped /\ EngineNcInit
    /\ params = DefaultParams
    /\ cap_running = FALSE
    /\ out_running = FALSE
    /\ h_n = 0
    /\ lim = [NoLimits EXCEPT !.fxcalls = FxCalls]

FxNext ==
    \/ ChainEnable
    \/ ChainUpdateEnabled
    \/ ChainUpdateSetting
    \/ ChainProcess

FxSpec == FxSpecInit /\ [][FxNext]_vars

(***************************************************************************)
(* update_params of the engine called on its own, as in                    *)
(* tests/test_integration.py                                               *)
(***************************************************************************)
RouteSpecInit ==
    /\ cfg = DefaultConfig
    /\ CapInit /\ OutInit /\ EngineInit /\ Stopped /\ EngineNcInit
    /\ params = DefaultParams
    /\ cap_running = FALSE
    /\ out_running = FALSE
    /\ h_n = 0
    /\ lim = [NoLimits EXCEPT !.rcalls = RouteCalls]

RouteNext == EngineUpdate

RouteSpec == RouteSpecInit /\ [][RouteNext]_vars

(***************************************************************************)
(* The shelving equaliser of the voice beautifier called on its own        *)
(***************************************************************************)
EqSpecInit ==
    /\ AudioIdle /\ EngineNcInit
    /\ lim = [NoLimits EXCEPT !.eqcalls = EqCalls]

EqNext == EqCall

EqSpec == EqSpecInit /\ [][EqNext]_vars

(***************************************************************************)
(* The capture callback's conversion applied to blocks of every level      *)
(***************************************************************************)
ClipSpecInit ==
    /\ AudioIdle /\ EngineNcInit
    /\ lim = [NoLimits EXCEPT !.ccalls = ClipCalls]

ClipNext == ClipCall

ClipSpec == ClipSpecInit /\ [][ClipNext]_vars

(***************************************************************************)
(* The running engine with the control path writing the engine parameters, *)
(* while the output device asks for nothing                                *)
(***************************************************************************)
ParamSpecInit ==
    /\ cfg = PipeConfig
    /\ lim = [NoLimits EXCEPT !.frames = ParamFrames, !.rcalls = ParamUpdates]
    /\ CapInit /\ OutInit /\ EngineInit /\ EngineNcInit /\ Started
    /\ params = DefaultParams
    /\ pedalboard = TRUE
    /\ cap_running = TRUE
    /\ out_running = TRUE
    /\ h_n = 0

ParamNext ==
    \/ CaptureCallback
    \/ CaptureEvict
    \/ CaptureReput
    \/ WorkerRead
    \/ WorkerTimeout
    \/ WorkerBypass
    \/ WorkerPitchTest
    \/ WorkerPitch
    \/ WorkerFormantTest
    \/ WorkerFormant
    \/ WorkerEffects
    \/ WorkerVolumeTest
    \/ WorkerVolume
    \/ WorkerWrite
    \/ WorkerExcept
    \/ WorkerWritten
    \/ WriteCheck
    \/ WriteDrainTest
    \/ WriteDrainGet
    \/ WritePut
    \/ EngineUpdateLive

ParamSpec == ParamSpecInit /\ [][ParamNext]_vars

\* the parameters a run of the loop starts from: every stage either skipped
\* or made to run, the bypass either way, and a volume that is no number
LoopParams ==
    [pitch_shift : {Num(0), Num(5)}, formant_ratio : {Num(100), Num(150)},
     bypass : BOOLEAN, volume : {Num(100), Num(50)}]
    \cup {[DefaultParams EXCEPT !.volume = None]}

\* the processing loop of a started engine: the device delivers frames, the
\* worker reads, processes and writes them, an effect is switched meanwhile
LoopSpecInit ==
    /\ cfg = PipeConfig
    /\ lim = [NoLimits EXCEPT !.frames = LoopFrames, !.updates = LoopUpdates,
                              !.timeouts = LoopTimeouts]
    /\ CapInit /\ OutInit /\ EngineInit /\ EngineNcInit /\ Started
    /\ params \in LoopParams
    /\ pedalboard = TRUE
    /\ cap_running = TRUE
    /\ out_running = TRUE
    /\ h_n = 0

LoopNext ==
    \/ CaptureCallback
    \/ CaptureEvict
    \/ CaptureReput
    \/ WorkerRead
    \/ WorkerTimeout
    \/ WorkerBypass
    \/ WorkerPitchTest
    \/ WorkerPitch
    \/ WorkerFormantTest
    \/ WorkerFormant
    \/ WorkerEffects
    \/ WorkerVolumeTest
    \/ WorkerVolume
    \/ WorkerWrite
    \/ WorkerExcept
    \/ WorkerWritten
    \/ WriteCheck
    \/ WriteDrainTest
    \/ WriteDrainGet
    \/ WritePut
    \/ UpdateEffect

LoopSpec == LoopSpecInit /\ [][LoopNext]_vars


(***************************************************************************)
\* the newest n elements of a queue
LastN(q, n) == SubSeq(q, Len(q) - n + 1, Len(q))

\* C5: a write() that finds at least MAX_OUTPUT_QUEUE frames queued, with no
\* output callback running during the call, returns with the queue holding
\* the newest MIN_OUTPUT_QUEUE of the frames it found, in their order,
\* followed by the new frame: MIN_OUTPUT_QUEUE + 1 frames.
C5_CatchUp ==
    (w_pc = "ret" /\ w_alone /\ Len(w_before) >= cfg.MAX_OUTPUT_QUEUE)
        => /\ out_queue = LastN(w_before, cfg.MIN_OUTPUT_QUEUE) \o <<w_data>>
           /\ Len(out_queue) = cfg.MIN_OUTPUT_QUEUE + 1

\* a catch-up write has returned, having dropped two frames or more
C5_Witness ==
    /\ w_pc = "ret" /\ w_alone
    /\ Len(w_before) >= cfg.MAX_OUTPUT_QUEUE
    /\ w_drop = cfg.MAX_OUTPUT_QUEUE - cfg.MIN_OUTPUT_QUEUE
    /\ w_drop >= 2

\* C6: with the default configuration, a fresh sink whose queue holds the
\* five frames 0..4 answers one more write() by catch-up, leaving the three
\* frames 3, 4 and the new one.
C6_DefaultCatchUp ==
    (/\ cfg = DefaultConfig
     /\ w_pc = "ret" /\ w_alone
     /\ w_before = [i \in 1..5 |-> HarnessFrame(i - 1)]
     /\ out_calls = 0)
        => out_queue = <<HarnessFrame(3), HarnessFrame(4), w_data>>

\* C7: an output callback that runs while the sink is running and finds the
\* queue empty leaves the whole device buffer zero and adds exactly one to
\* the underflow counter; one that finds a frame removes exactly the oldest
\* frame and leaves the underflow counter alone.
C7_Callback ==
    [][ (out_calls' # out_calls /\ out_running) =>
          IF out_queue = <<>>
          THEN /\ Length(outdata'.data) = CHUNK_SIZE
               /\ AllEqual(outdata'.data, 0)
               /\ underflow_count' = underflow_count + 1
               /\ out_queue' = out_queue
          ELSE /\ out_queue' = Tail(out_queue)
               /\ underflow_count' = underflow_count ]_vars

\* both cases have happened: an underflow rendered as silence, after a frame
\* was dequeued and rendered
C7_Witness ==
    /\ underflow_count = 1
    /\ out_calls = 2
    /\ outdata.data = Const(CHUNK_SIZE, 0)
    /\ h_n = 1 /\ w_pc = "ret" /\ out_queue = <<>>

(***************************************************************************)
(* Properties of the running engine                                        *)
(***************************************************************************)
\* an all-zero array of CHUNK_SIZE samples
IsSilentChunk(a) == Length(a) = CHUNK_SIZE /\ AllEqual(a, 0)

\* C1: an exception raised while the worker handles a frame (a parameter
\* that is not a number reaching the pitch stage or the volume product) takes
\* the worker to the handler inside the loop; the handler calls write() with
\* one all-zero frame of CHUNK_SIZE samples, that frame enters the output
\* queue, and the worker goes on to the next read.
C1_SilentOnException ==
    [][ /\ (wk_pc = "pitch_run" /\ params.pitch_shift = None /\ wk_pc' # wk_pc)
              => wk_pc' = "except"
        /\ (wk_pc = "volume_run" /\ params.volume = None /\ wk_pc' # wk_pc)
              => wk_pc' = "except"
        /\ (wk_pc = "except" /\ wk_pc' # wk_pc)
              => /\ wk_pc' = "exc_writing"
                 /\ w_pc' = "check"
                 /\ IsSilentChunk(w_data'.data)
        /\ (wk_pc = "exc_writing" /\ w_pc = "put" /\ w_pc' # w_pc)
              => /\ IsSilentChunk(w_data.data)
                 /\ out_queue' = Append(out_queue, w_data)
        /\ (wk_pc = "exc_writing" /\ wk_pc' # wk_pc)
              => wk_pc' = "read" /\ w_put ]_vars

\* the handler's silent frame was stored and the worker has read the frame
\* after the failed one
C1_Witness ==
    /\ wk_pc = "bypass"
    /\ wk_in.id >= 2
    /\ out_queue # <<>>
    /\ out_queue[Len(out_queue)].id = 0
    /\ IsSilentChunk(out_queue[Len(out_queue)].data)

\* C2: in an iteration in which the worker read bypass as true and volume as
\* 1.0, the frame it hands to write(), and the frame write() stores, is the
\* frame it read from the capture queue: the same samples, no stage applied.
C2_BypassIdentity ==
    [][ (wk_byp = <<TRUE>> /\ wk_vol = <<Num(100)>>)
          => /\ (wk_pc = "write" /\ wk_pc' # wk_pc) => w_data' = wk_in
             /\ (wk_pc = "writing" /\ w_pc = "put" /\ w_pc' # w_pc)
                   => out_queue' = Append(out_queue, wk_in) ]_vars

\* a bypassed frame was handed over while a pitch shift was set
C2_Witness ==
    /\ wk_pc = "writing"
    /\ wk_byp = <<TRUE>> /\ wk_vol = <<Num(100)>>
    /\ params.pitch_shift = Num(5)
    /\ wk_in.id >= 1
    /\ w_data = wk_in

\* the place of a frame in the order the capture callback enqueued frames
\* (0: never enqueued)
EnqueuedAt(id) ==
    IF \E i \in 1..Len(enqueued) : enqueued[i] = id
    THEN CHOOSE i \in 1..Len(enqueued) : enqueued[i] = id
    ELSE 0

InCaptureOrder(q) == \A i, j \in 1..Len(q) : i < j => q[i].id < q[j].id

\* C4: a capture callback that found the queue full removes exactly the
\* oldest queued frame and then appends its new frame at the tail; the queue
\* never holds more than MAX_INPUT_QUEUE frames, and its frames stay in the
\* order of their capture.
C4_EvictOldestInsertNew ==
    [][ /\ (cb_pc = "evict" /\ cb_pc' # cb_pc)
              => /\ cap_queue # <<>>
                 /\ cap_queue' = Tail(cap_queue)
                 /\ cb_pc' = "reput"
        /\ (cb_pc = "reput" /\ cb_pc' # cb_pc)
              => cap_queue' = Append(cap_queue, cb_data)
        /\ Len(cap_queue') <= cfg.MAX_INPUT_QUEUE
        /\ InCaptureOrder(cap_queue') ]_vars

(***************************************************************************)
(* Properties of the voice slot manager                                    *)
(***************************************************************************)
\* C8: a switch requested while another one is in progress is not lost and
\* is applied by the switch in progress without a further call: the thread
\* that takes a queued request is never left waiting for the lock it holds
\* itself, and once every call has returned the current slot is the target
\* of any request still in the queue.
C8_QueuedSwitchApplied ==
    /\ \A t \in Threads : ~(sl_pc[t] = "acquire" /\ slot_lock = t)
    /\ ((\A t \in Threads : sl_pc[t] = "idle") /\ switch_queue # <<>>)
          => current_slot = Head(switch_queue)

(***************************************************************************)
(* Properties of the noise canceller                                       *)
(***************************************************************************)
\* C9: every process() call in which the backend raised returned its input;
\* after three such calls in a row on a fresh, enabled canceller fallback is
\* set and the error count is at least 3; and each process() call after
\* them returns its input without a call of the backend.
C9_FallbackAfterThree ==
    /\ (nc_last.op = "process" /\ nc_last.raised) => nc_last.out = nc_last.in
    /\ nc_streak \in {3, 4} => nc_fallback /\ nc_errors >= 3
    /\ (nc_streak = 4 /\ nc_last.op = "process")
          => nc_last.out = nc_last.in /\ ~nc_last.invoked

\* after the three failures a voiced buffer was passed through
C9_Witness ==
    /\ nc_streak = 4
    /\ nc_last.op = "process"
    /\ nc_last.in = Captured(1, 5)
    /\ nc_last.out = nc_last.in
    /\ nc_errors = 3 /\ nc_fallback

\* C10: fallback, once set, is cleared by enable() and by no other call, and
\* it is set only by a call that leaves the error count at 3 or more.
C10_FallbackOneWay ==
    [][ /\ (nc_fallback /\ ~nc_fallback') => nc_last'.op = "enable"
        /\ (~nc_fallback /\ nc_fallback') => nc_errors' >= 3 ]_vars

\* fallback was set, outlasted a disable(), a set_intensity() or a process()
\* call, and was cleared by enable()
C10_Witness ==
    /\ nc_last.op = "enable"
    /\ ~nc_fallback
    /\ nc_errors = 3
    /\ nc_calls = 5

(***************************************************************************)
(* Engine life cycle                                                       *)
(***************************************************************************)
\* the engine is fully stopped: not running, the stop signal set, no stream
\* open or marked running
FullyStopped ==
    /\ ~eng_running
    /\ stop_event
    /\ cap_stream = "none" /\ ~cap_running
    /\ out_stream = "none" /\ ~out_running

\* C11: a start() in which the input or the output stream failed to open
\* ends by raising that error to its caller, and when it has, the engine is
\* fully stopped and the call created no processing and no monitor thread.
C11_FailedStartStops ==
    /\ ctl_err # <<>> => ctl_pc # "idle"
    /\ (ctl_pc = "idle" /\ ctl_last.res = "raised") =>
          /\ ctl_last.op = "start" /\ ctl_last.err # <<>>
          /\ FullyStopped
          /\ Len(pthreads) = run_base.pt
          /\ Len(mthreads) = run_base.mt

\* a start() raised the output stream's error, after its capture stream had opened
C11_Witness ==
    /\ ctl_pc = "idle"
    /\ ctl_last = Outcome("start", "raised", <<"output">>)
    /\ cb_n > run_base.cb

\* C12: when start() has opened both streams and is about to create the
\* processing thread (no frame of this run has been processed yet), the
\* pipeline state is that of a fresh engine: the output queue is empty, the
\* input queue holds no frame captured before this start(), the crossfade
\* tail and the ring buffer are all zero with write index 0, and the dropped
\* frame counter, the underflow counter and the statistics count nothing
\* from before this start().
C12_ResetOnStart ==
    ctl_pc = "spawn_process" =>
        /\ out_queue = <<>>
        /\ \A i \in 1..Len(cap_queue) : cap_queue[i].id > run_base.cb
        /\ AllEqual(prev_tail, 0) /\ AllEqual(buf_data, 0) /\ write_ptr = 0
        /\ dropped_frames <= cb_n - run_base.cb
        /\ underflow_count <= out_calls - run_base.oc
        /\ stats = InitialStats

\* C13: when start() has returned successfully the engine is running and
\* its processing thread and its monitor thread are alive; when a stop()
\* has returned the engine is not running and the processing thread is not
\* alive.
C13_RunningThenStopped ==
    /\ (ctl_pc = "idle" /\ ctl_last = Outcome("start", "ok", <<>>)) =>
          eng_running /\ HasLive(pthreads) /\ HasLive(mthreads)
    /\ (ctl_pc = "idle" /\ ctl_last = Outcome("stop", "ok", <<>>)) =>
          ~eng_running /\ ~HasLive(pthreads)

\* stop() has returned after a start() that had created the two threads and
\* whose worker had processed a frame
C13_Witness ==
    /\ ctl_pc = "idle"
    /\ ctl_last = Outcome("stop", "ok", <<>>)
    /\ pthreads # <<>>
    /\ stats.latency_ms # 0

\* thread number g exists and is alive
ProcLive(g) == g <= Len(pthreads) /\ Alive(pthreads[g])
MonLive(g) == g <= Len(mthreads) /\ Alive(mthreads[g])

\* the positions of the control thread inside stop()
InStop == ctl_pc \in {"stop_capture", "stop_output", "join_process", "test_monitor",
                      "join_monitor", "return"}

\* C14: once stop() has set the stop signal, every processing thread and
\* every monitor thread that is alive eventually leaves its loop, and a
\* stop() that was entered eventually returns.
C14_WorkersLeave ==
    /\ \A g \in 1..LifeCalls : (stop_event /\ ProcLive(g)) ~> ~ProcLive(g)
    /\ \A g \in 1..LifeCalls : (stop_event /\ MonLive(g)) ~> ~MonLive(g)
    /\ InStop ~> ~InStop

\* the order of the positions inside one invocation of the capture callback
CallbackRank(pc) == CASE pc = "idle" -> 0 [] pc = "evict" -> 1 [] pc = "reput" -> 2

\* a device callback can take its next step
CallbackNeverWaits ==
    /\ cb_pc # "idle" => ENABLED CallbackStep
    /\ (cap_stream = "active" /\ cb_pc = "idle" /\ cb_n < lim.frames) => ENABLED DeviceCapture
    /\ (out_stream = "active" /\ out_calls < lim.outcalls) => ENABLED DeviceOutput

\* C15: a device callback never waits for another thread: whatever the
\* worker and the control thread are doing, the step an invocation is at can
\* be taken, and an invocation only moves forward (entry, eviction, second
\* put), so it ends within three steps of its own.
C15_CallbacksNeverWait ==
    /\ []CallbackNeverWaits
    /\ [][cb_pc' # cb_pc => (cb_pc' = "idle" \/ CallbackRank(cb_pc') > CallbackRank(cb_pc))]_vars

\* a capture callback is at its eviction, the queue emptied under it, after
\* the processing thread has ended
C15_Witness ==
    /\ cb_pc = "evict"
    /\ cap_queue = <<>>
    /\ pthreads # <<>>
    /\ ~HasLive(pthreads)

C17_FormantResizes ==
    (dsp_last.stage = "formant" /\ dsp_last.n = 100 /\ dsp_last.factor \in {50, 200}) =>
        dsp_last.len = (dsp_last.n * 100) \div dsp_last.factor

(***************************************************************************)
(* Circular buffer                                                         *)
(***************************************************************************)
\* the samples the buffer holds
BufferSamples == {Sample(buf_data, p) : p \in 0..(Length(buf_data) - 1)}

\* C18: after any sequence of write() calls on a buffer of capacity C the
\* write index is the number of samples stored so far modulo C and every
\* position holds the sample stored there last, as in a ring written one
\* sample at a time; a write longer than C stores its last C samples only,
\* which then fill the buffer.
C18_RingContents ==
    LET capacity == Length(buf_data)
    IN  /\ write_ptr = buf_total % capacity
        /\ \A p \in 0..(capacity - 1) : Sample(buf_data, p) = buf_shadow[p]
        /\ buf_last.len > capacity =>
              BufferSamples = (buf_handed - capacity + 1)..buf_handed

\* the third write did not fit before the end of the buffer and wrapped
C18_Witness ==
    /\ buf_calls = 3
    /\ buf_last.len <= Length(buf_data)
    /\ buf_last.wp + buf_last.len > Length(buf_data)
    /\ write_ptr > 0

\* C19: EffectsChain.process returns the very input it was given, without
\* touching the backend or any state of the chain, whenever the chain is
\* globally disabled or no effect's enabled flag is set, after any sequence
\* of update calls.
C19_BypassReturnsInput ==
    [][(fx_res'.call # fx_res.call /\ (~fx_on \/ fx_enabled = {})) =>
          /\ fx_res'.ret = "input"
          /\ fx_res'.backend = "none"
          /\ UNCHANGED <<fx_on, fx_none, fx_board, paramVars>>]_vars

\* a disabled chain, holding enabled effects one of which has a None
\* setting, was called after three other calls and returned its input
C19_Witness ==
    /\ fx_res.call = 4
    /\ ~fx_res.on
    /\ fx_res.enabled \cap fx_none \cap MockEffects # {}
    /\ fx_res.ret = "input"

\* C20: EffectsChain.process never raises to its caller: on either backend a
\* failure while applying the enabled effects is caught inside the chain and
\* the call returns the input audio as passthrough.
C20_NeverRaises ==
    fx_res.ret # "raised"


\* C21: Engine.update_params(name, value) stores value under name when name
\* is an engine parameter; merges {f: value} into effect e's parameters and
\* triggers a rebuild when name is effect:<e>:<f> with e a known effect; and
\* leaves every engine and effect parameter unchanged for any other name.
C21_Routing ==
    [][rt_calls' # rt_calls =>
          LET parts == rt_last'.name
              value == rt_last'.value
          IN  IF Len(parts) = 1 /\ parts[1] \in {"pitch_shift", "formant_ratio", "bypass", "volume"}
              THEN /\ params' = [params EXCEPT ![parts[1]] = value]
                   /\ fx_params' = fx_params
              ELSE IF Len(parts) = 3 /\ parts[1] = "effect" /\ parts[2] \in DOMAIN fx_params
                   THEN /\ fx_params' = [fx_params EXCEPT ![parts[2]] = Merge(@, parts[3], value)]
                        /\ rt_last'.end = "rebuilt"
                        /\ params' = params
                   ELSE /\ params' = params
                        /\ fx_params' = fx_params]_vars


\* the arguments the stage was run with on the way to a frame
StageArgs(ops, stage) == SelectSeq(ops, LAMBDA o : o.stage = stage)

\* no write to the parameter since the worker began the frame it is handling
FreshFor(name) == rt_at[name] # wk_in.id

\* the frame at the write is the captured one taken through the volume
\* stage with volume v
VolumeApplied(v) ==
    LET ops == wk_proc.ops
        tagged == ops # <<>> /\ ops[Len(ops)].stage = "volume"
    IN  IF v = Num(100) THEN ~tagged /\ wk_proc.data = wk_in.data
        ELSE IF tagged THEN ops[Len(ops)].arg = v.v /\ wk_proc.data = wk_in.data
        ELSE /\ ops = <<>>
             /\ wk_proc.data = MapVal(wk_in.data, LAMBDA x : Hundredths(x, v.v))

\* C22: a parameter write never blocks on the worker, and takes effect within
\* one frame: a frame the worker began after the last write to a parameter is
\* processed with the value that write left, the worker using the latest
\* value at the moment it reads.
C22_LatestValueUsed ==
    /\ rt_calls < lim.rcalls => ENABLED EngineUpdateLive
    /\ wk_pc = "write" =>
          /\ FreshFor("bypass") => wk_byp = <<params.bypass>>
          /\ (wk_byp = <<FALSE>> /\ FreshFor("pitch_shift")) =>
                \A r \in PitchProcess(wk_in, params.pitch_shift) :
                   ~r.raised /\ StageArgs(wk_proc.ops, "pitch") = StageArgs(r.val.ops, "pitch")
          /\ (wk_byp = <<FALSE>> /\ FreshFor("formant_ratio")) =>
                \A r \in FormantProcess(wk_in, params.formant_ratio) :
                   ~r.raised /\ StageArgs(wk_proc.ops, "formant") = StageArgs(r.val.ops, "formant")
          /\ FreshFor("volume") => wk_vol = <<params.volume>> /\ VolumeApplied(params.volume)

\* the volume was set to 0.8 while the worker handled the first frame, and
\* the second frame reaches the write scaled by 0.8
C22_Witness ==
    /\ wk_pc = "write"
    /\ wk_in.id = 2
    /\ rt_last = Routed(<<"volume">>, Num(80), "stored")
    /\ rt_at["volume"] = 1
    /\ wk_vol = <<Num(80)>>


\* C23: set_intensity with a value outside {light, medium, aggressive}
\* changes no state (intensity, enabled flag, fallback flag, both counters);
\* a known value replaces the intensity and changes nothing else; so the
\* intensity is a known one in every reachable state.
C23_IntensityValidated ==
    /\ [](nc_intensity \in {"light", "medium", "aggressive"})
    /\ [][(nc_calls' # nc_calls /\ nc_last'.op = "set_intensity") =>
             /\ UNCHANGED <<nc_enabled, nc_fallback, nc_processed, nc_errors>>
             /\ nc_intensity' = IF nc_last'.arg \in {"light", "medium", "aggressive"}
                                THEN nc_last'.arg
                                ELSE nc_intensity]_vars

\* an unknown level was refused after a known one had replaced the level
\* the canceller was built with
C23_Witness ==
    /\ nc_last.op = "set_intensity"
    /\ nc_last.arg = "extreme"
    /\ nc_intensity = "aggressive"
    /\ nc_calls >= 2


C25_StrictlyInside ==
    \A i \in 1..Len(clip_out) : -One < clip_out[i].val /\ clip_out[i].val < One

\* C25 (amended): every sample the capture callback enqueues, after the x10
\* gain and the soft clip, lies in the closed interval [-1, 1]; a raw sample
\* at full scale is enqueued as exactly 1.0 or -1.0 in float32.
C25_WithinClosed ==
    /\ \A i \in 1..Len(clip_out) : -One <= clip_out[i].val /\ clip_out[i].val <= One
    /\ \A i \in 1..Len(clip_in) :
          clip_in[i].val \in {-10, 10} =>
             \E j \in 1..Len(clip_out) : clip_out[j].val = (clip_in[i].val \div 10) * One

\* a block with a full-scale sample, a half-scale one and silence was
\* converted: the first came out as 1.0, the second strictly below it
C25_Witness ==
    /\ clip_calls = 1
    /\ clip_in = <<[cnt |-> 1, val |-> 10], [cnt |-> 1, val |-> -5], [cnt |-> CHUNK_SIZE - 2, val |-> 0]>>
    /\ clip_out[1].val = One
    /\ clip_out[2].val > -One /\ clip_out[2].val < 0


\* C26: every call to switch_to returns: for any sequence and interleaving
\* of concurrent calls, including one whose request was queued during a
\* switch and is drained on leaving the critical section, no caller blocks
\* forever and the lock is always eventually released.
C26_EveryCallReturns ==
    /\ \A t \in Threads : (sl_pc[t] # "idle") ~> (sl_pc[t] = "idle")
    /\ (slot_lock # 0) ~> (slot_lock = 0)

\* C27: in every reachable state the current slot is one of the manager's
\* slots and at most one switch request is pending, whatever indices the
\* callers pass; and a call with an index outside the slots returns False
\* in the step that makes it and changes neither the current slot, nor the
\* pending request, nor the crossfade, nor the switching flag and the lock.
C27_SlotInvariant ==
    /\ [](current_slot \in 0..(NumSlots - 1) /\ Len(switch_queue) <= 1)
    /\ [][(sl_calls' # sl_calls /\ sl_entry'.index \notin 0..(NumSlots - 1))
            => /\ sl_entry'.refused
               /\ sl_pc'[sl_entry'.t] = "idle"
               /\ UNCHANGED <<current_slot, switch_queue, fade, fade_progress,
                              switching, slot_lock>>]_vars

\* a call with index -1 was refused after an earlier switch had moved the
\* manager to slot 2 and the slot is still 2
C27_Witness ==
    /\ sl_entry.index = -1
    /\ sl_entry.refused
    /\ current_slot = 2
    /\ fade # <<>>
    /\ \A t \in Threads : sl_pc[t] = "idle"

\* C28: the crossfade progress stays within 0..curve length in every
\* reachable state; each apply_crossfade call that blends advances the
\* progress by min(chunk length, remaining curve length) and no call
\* decreases it; with the progress at the curve length apply_crossfade
\* returns the chunk untouched and leaves the progress alone; and the step
\* of a switch that prepares the crossfade sets the progress to 0, the
\* from-slot to the current slot and the to-slot to the slot asked for.
C28_FadeProgress ==
    /\ [](0 <= fade_progress /\ fade_progress <= FadeLen)
    /\ [][xf_pc = "store" /\ xf_pc' = "idle"
            => /\ fade_progress' = fade_progress
                                   + (IF xf_chunk <= FadeLen - fade_progress
                                      THEN xf_chunk ELSE FadeLen - fade_progress)
               /\ fade_progress' >= fade_progress]_vars
    /\ [][xf_calls' # xf_calls /\ fade # <<>> /\ fade_progress = FadeLen
            => /\ ~xf_last'.touched
               /\ xf_pc' = "idle"
               /\ fade_progress' = fade_progress]_vars
    /\ [][fade' # fade
            => /\ fade_progress' = 0
               /\ fade' = <<[from |-> current_slot, to |-> sl_arg[1]]>>]_vars

\* C29: an iteration of the processing worker calls the output's write at
\* most once. A read that times out writes nothing and leaves the output
\* queue and the underflow counter as they were, and the worker is back at
\* the read; an iteration that read a frame ends with exactly one write
\* behind it: of the processed frame when no exception was raised, of one
\* silent frame when one was, and never of both.
C29_OneWritePerIteration ==
    /\ [](Len(wk_wrote) <= 1)
    /\ [](wk_pc = "read" => wk_wrote = <<>> /\ w_pc = "idle")
    /\ [][wk_timeouts' # wk_timeouts
            => /\ UNCHANGED <<out_queue, underflow_count, w_pc, w_data, w_put>>
               /\ wk_pc' = "read"]_vars
    /\ [][wk_wrote' # wk_wrote /\ wk_wrote' # <<>>
            => w_data' = (IF wk_pc = "except" THEN SilentFrame ELSE wk_proc)]_vars
    /\ [][(wk_pc # "read" /\ wk_pc' = "read")
            => wk_wrote = (IF wk_pc = "exc_writing" THEN <<"silent">>
                                                    ELSE <<"processed">>)]_vars

\* a read has timed out, an iteration has raised and written its silent
\* frame, and the next one raised too and its handler's write has returned
C29_Witness ==
    /\ Len(out_queue) > 0
    /\ wk_pc = "exc_writing"
    /\ wk_wrote = <<"silent">>
    /\ w_pc = "ret"
    /\ wk_timeouts > 0

\* the stages of an iteration that does not bypass, in the order of the loop
StageOrder == <<"pitch", "formant", "effects", "volume", "write">>

\* what the effects stage can hand on for the array it was given
EffectsOutputs(f) == {f} \cup {Tag(f, "board", e) : e \in (SUBSET EffectNames) \ {{}}}

\* C30: for every frame that is not bypassed the worker goes through pitch
\* shift, formant shift, effects chain (with the fold-down to mono), volume
\* scaling and the write to the output in this order; each stage is given
\* what the stage before it handed on (the first one the frame read) and
\* hands on what its call returned, a stage not called hands on what it was
\* given; the frame written is what the volume stage handed on; the pitch
\* stage is not called only when pitch_shift is 0, the formant stage only
\* when formant_ratio is 1.0, and the effects chain is always called.
C30_StageOrder ==
    wk_byp = <<FALSE>> =>
        /\ Len(wk_trace) <= Len(StageOrder)
        /\ wk_proc = (IF wk_trace = <<>> THEN wk_in ELSE wk_trace[Len(wk_trace)].out)
        /\ wk_pc = "writing" => Len(wk_trace) = Len(StageOrder) /\ w_data = wk_proc
        /\ \A k \in 1..Len(wk_trace) :
              LET v == wk_trace[k]
              IN  /\ v.stage = StageOrder[k]
                  /\ v.in = (IF k = 1 THEN wk_in ELSE wk_trace[k - 1].out)
                  /\ ~v.ran => v.out = v.in
                  /\ (v.stage = "pitch" /\ ~v.ran) => v.saw = Num(0)
                  /\ (v.stage = "formant" /\ ~v.ran) => v.saw = Num(100)
                  /\ v.stage \in {"effects", "write"} => v.ran
                  /\ (k < Len(wk_trace) /\ v.ran) =>
                        CASE v.stage = "pitch" -> Ok(v.out) \in PitchProcess(v.in, v.saw)
                          [] v.stage = "formant" -> Ok(v.out) \in FormantProcess(v.in, v.saw)
                          [] v.stage = "effects" -> v.out \in EffectsOutputs(v.in)
                          [] v.stage = "volume" -> Ok(v.out) = Scale(v.in, v.saw)
                          [] OTHER -> TRUE

\* a frame that is not bypassed is being written after the pitch stage, the
\* formant stage, an enabled effect and the volume scaling each changed it
C30_Witness ==
    /\ wk_byp = <<FALSE>>
    /\ wk_pc = "writing"
    /\ Len(wk_trace) = 5
    /\ \A k \in 1..4 : wk_trace[k].ran /\ wk_trace[k].out # wk_trace[k].in
    /\ w_data = wk_trace[4].out

\* C31: across the start() and stop() calls at most one processing thread
\* and at most one monitor thread run their loops: a thread created by an
\* earlier start() never passes its loop test into another iteration once a
\* later start() has created its successor.
C31_OneWorkerEach ==
    [][\A g \in 1..LifeCalls :
          /\ (g < Len(pthreads) /\ pthreads[g].pc = "test") => pthreads'[g].pc \in {"test", "dead"}
          /\ (g < Len(mthreads) /\ mthreads[g].pc = "test") => mthreads'[g].pc \in {"test", "dead"}]_vars

\* the frames a callback that is under way still has to account for: its own
\* frame, and past the eviction also the evicted one, not counted yet
InHand == CASE cb_pc = "evict" -> 1 [] cb_pc = "reput" -> 2 [] OTHER -> 0

\* what the balance leaves for read(): the frames the callback accepted
\* less those still queued, those counted as dropped and those in hand
Delivered == cb_n - Len(cap_queue) - dropped_frames - InHand

\* a step of the reader: read() takes the oldest frame
ReadStep == cb_pc' = cb_pc /\ cb_n' = cb_n /\ cap_queue # <<>> /\ cap_queue' = Tail(cap_queue)

\* C32: under every interleaving of the capture callback with the reader the
\* frames the callback accepted are those read() delivered, those still
\* queued and those counted in dropped_frames: the balance moves by one with
\* each read() and with nothing else; a callback that ends has put its frame
\* in the queue; and dropped_frames goes up by one, with the second put of a
\* callback that evicted a frame, and in no other step.
C32_FramesConserved ==
    /\ [][IF ReadStep THEN Delivered' = Delivered + 1 ELSE Delivered' = Delivered]_vars
    /\ [][(cb_pc # "idle" /\ cb_pc' = "idle")
            => \E i \in 1..Len(cap_queue') : cap_queue'[i] = cb_data]_vars
    /\ [][dropped_frames' # dropped_frames
            => cb_pc = "reput" /\ dropped_frames' = dropped_frames + 1]_vars
    /\ [][(cb_pc = "reput" /\ cb_pc' = "idle") => dropped_frames' = dropped_frames + 1]_vars

\* C33: with the processing worker as the only producer and whatever the
\* output callback does meanwhile, write() ends in none but its own steps
\* (no exception leaves it), its put never finds the queue full, so that it
\* never waits, the put appends the frame write() was given and write()
\* returns; and the output queue never holds more than MAX_OUTPUT_QUEUE
\* frames.
C33_WriteAlwaysStores ==
    /\ [](Len(out_queue) <= cfg.MAX_OUTPUT_QUEUE)
    /\ [](w_pc \in {"idle", "check", "test", "get", "put", "ret"})
    /\ [](w_pc = "put" => Len(out_queue) < cfg.MAX_OUTPUT_QUEUE)
    /\ [][(w_pc = "put" /\ w_pc' # w_pc)
            => /\ w_pc' = "ret"
               /\ w_put'
               /\ out_queue' = Append(out_queue, w_data)]_vars

\* a write() that had to catch up, with the output callback taking frames
\* during the call, has stored its frame at the tail of the queue
C33_Witness ==
    /\ w_pc = "ret"
    /\ w_put
    /\ ~w_alone
    /\ w_drop > 0
    /\ out_queue # <<>>
    /\ out_queue[Len(out_queue)] = w_data

\* C34: the tail of the circular buffer is fade_len samples long in
\* every reachable state. apply_crossfade returns a chunk shorter than twice
\* the fade length as it came and leaves the tail as it was. For a longer
\* chunk the tail it leaves is the last fade_len samples of the chunk
\* it returned; the returned chunk is the input but for its first
\* fade_len samples, which are blended with the previous tail when
\* that tail held a sample other than zero and are the input's otherwise;
\* and the caller's chunk is what it was before the call.
C34_TailKept ==
    /\ [](Length(prev_tail) = fade_len)
    /\ [][cf_calls' # cf_calls =>
            LET c == cf_last'
                n == fade_len
            IN  /\ c.tail_before = prev_tail
                /\ c.arg_after = c.arg
                /\ IF Length(c.arg) < 2 * n
                   THEN c.out = c.arg /\ prev_tail' = prev_tail
                   ELSE /\ prev_tail' = Drop(c.out, Length(c.out) - n)
                        /\ Length(c.out) = Length(c.arg)
                        /\ Drop(c.out, n) = Drop(c.arg, n)
                        /\ Take(c.out, n) =
                              (IF \E i \in 1..Len(prev_tail) : prev_tail[i].val # 0
                               THEN Blend(prev_tail, Take(c.arg, n))
                               ELSE Take(c.arg, n))]_vars

\* a chunk was blended with the tail of the chunk before it, and a chunk too
\* short to fade came next and left that tail alone
C34_Witness ==
    /\ cf_calls = 3
    /\ Length(cf_last.arg) = 2 * fade_len - 1
    /\ cf_last.out = cf_last.arg
    /\ prev_tail = cf_last.tail_before
    /\ prev_tail = Const(fade_len, -TailLevel)

\* C35: with the pedalboard library present the board holds, after every
\* update_params call, one plugin for each effect whose enabled flag is set,
\* in the order distortion, chorus, reverb, delay, compressor, each built
\* from the effect's settings as they are now; and a call that names an
\* effect the chain does not know leaves the settings and the board alone.
C35_ChainMatchesParams ==
    /\ [](pedalboard =>
            /\ fx_board = <<EnabledIn(fx_params)>>
            /\ fx_chain = BuildChain(fx_params))
    /\ [][(rt_calls' # rt_calls /\ Route(rt_last'.name).kind = "effect"
              /\ Route(rt_last'.name).e \notin DOMAIN fx_params) =>
            UNCHANGED <<fx_params, fx_enabled, fx_none, fx_board, fx_chain>>]_vars

\* C36: a log_error call reports the n-th error of its source, n counted
\* for that source alone and from 1 again after more than ResetAfter
\* seconds without an error of that source; the call logs exactly when
\* n <= 3 or n is a multiple of 10; and whenever no call holds the lock the
\* count kept for each source is the number of its errors, whichever
\* threads reported them.
C36_TrackerCounts ==
    /\ [][\A t \in TrackThreads :
            (et_pc[t] = "log" /\ et_pc'[t] = "idle") =>
                /\ et_last'.source = et_src[t]
                /\ et_last'.count = et_mine[t]
                /\ et_last'.logged = (et_mine[t] <= 3 \/ et_mine[t] % 10 = 0)]_vars
    /\ [](et_lock = 0 =>
            \A source \in TrackSources :
                (\A t \in TrackThreads : et_src[t] = source => et_pc[t] \in {"idle", "acquire"})
                    => Get(error_counts, source, 0) = et_nth[source])

\* the tenth error of a run was logged; the source's first error, more than
\* a minute before, is not counted
C36_Witness ==
    /\ et_last = Tracked("ProcessingLoop", 10, TRUE)
    /\ DOMAIN error_counts = {"ProcessingLoop"}
    /\ et_calls = 11
    /\ \A t \in TrackThreads : et_pc[t] = "idle"

\* C37: whenever process() runs the de-esser or the shelves, the settings
\* it runs them with are within their ranges, the strength in 0..1 and the
\* two gains in -10..10 dB, whether they came with the call or were set by
\* the sliders before.
C37_SettingsInRange ==
    [][(vb_pc = "filter" /\ vb_pc' = "idle" /\ (vb_last'.deess \/ vb_last'.eq)) =>
          /\ vb_settings.deesser_strength \in 0..100
          /\ vb_settings.warmth \in -10..10
          /\ vb_settings.presence \in -10..10]_vars

\* a call came with settings beyond the ranges on every side and ran both
\* stages with the clamped ones, but for the presence, which a slider had
\* moved in between
C37_Witness ==
    /\ vb_last.over = <<Settings(250, -15, 15, TRUE)>>
    /\ vb_last.deess /\ vb_last.eq
    /\ vb_last.ret = "processed"
    /\ vb_settings = Settings(100, -10, -10, TRUE)
    /\ eq_last.key = <<-10, -10, SAMPLE_RATE>>

\* C38: a process() call made after disable() and before the next enable()
\* returns the array it was given, with settings passed or without; so does
\* a call made while the bypass is set.
C38_SwitchesSticky ==
    [][(vb_calls' # vb_calls /\ (vb_master = "off" \/ vb_bypass)) =>
          /\ vb_pc' = "idle"
          /\ vb_last'.ret = "input"]_vars

====
